---- MODULE Spec2Model ----
(***************************************************************************)
(* A model of the spectral_agent trading agent:                            *)
(*   - TradingExecutionTool (src/src/tools/trading_execution.py): the      *)
(*     decision engine, the live price lookup, order placement,            *)
(*     execute_trade and run;                                              *)
(*   - LLMEngine.process_prompt (src/src/llm_engine.py): the turn loop and *)
(*     the fallback execution that follows it.                             *)
(*                                                                         *)
(* Numbers.  Python floats are modelled as scaled integers:                *)
(*   sentiment, RSI, 24h change and confidence in tenths (0.5 -> 5,        *)
(*   RSI 80 -> 800, change 5% -> 50); money (amount, price) in cents;      *)
(*   position size in units of 0.0001 (the 4 decimals of round(.., 4)).    *)
(* Dictionaries are functions whose DOMAIN is the set of keys present;     *)
(* None, where a dictionary is expected, is the value NoneD.               *)
(***************************************************************************)
EXTENDS Integers, Sequences, FiniteSets, TLC

VARIABLES
    call,              \* harness: the entry point under test and its arguments
    ret,               \* harness: what the call returned or raised, and its effects
    hpc,               \* harness: "idle" | "called" | "returned"
    pc,                \* process_prompt: position in the method
    prompt_args,       \* process_prompt: symbol, dry_run, amount as passed by the caller
    turn_count,        \* process_prompt: local turn_count
    made_tool_calls,   \* process_prompt: local made_tool_calls
    assistant_message, \* process_prompt: local assistant_message (last model reply)
    context,           \* process_prompt: the Context dictionary
    requests,          \* the completion requests made so far, in order
    trade_runs,        \* the TradingExecutionTool.run invocations made so far
    returned,          \* process_prompt: the returned dictionary, once returned
    engine             \* LLMEngine: self.tools (the tools loaded) and self.tool_specs

hvars == <<call, ret, hpc>>
ovars == <<pc, prompt_args, turn_count, made_tool_calls, assistant_message,
           context, requests, trade_runs, returned>>
vars == <<call, ret, hpc, pc, prompt_args, turn_count, made_tool_calls,
          assistant_message, context, requests, trade_runs, returned, engine>>

-----------------------------------------------------------------------------
(* Python values *)

\* None where a dictionary is expected
NoneD == [isNone |-> TRUE]

\* the empty dictionary {}
EmptyD == [k \in {} |-> 0]

IsNone(d) == "isNone" \in DOMAIN d

\* truthiness of an optional dictionary: not None and not empty
Truthy(d) == ~IsNone(d) /\ DOMAIN d # {}

\* d.get(k, default)
Get(d, k, default) == IF k \in DOMAIN d THEN d[k] ELSE default

\* truthiness of an optional string: not None and not ""
TruthyStr(s) == s \notin {"None", ""}

-----------------------------------------------------------------------------
(* TradingExecutionTool._make_trading_decision *)

\* average_sentiment as read at lines 428-435 (default 0.0)
ReadSentiment(sentiment_data) ==
    IF Truthy(sentiment_data)
    THEN Get(sentiment_data, "average_sentiment", 0) ELSE 0

\* 24h_change_percent as read at lines 429, 438-439 (default 0.0)
ReadChange(market_data) ==
    IF Truthy(market_data)
    THEN Get(market_data, "24h_change_percent", 0) ELSE 0

\* the RSI as read at lines 430, 438-442: rsi_14, else rsi, else 50.0
ReadRsi(market_data) ==
    LET indicators == IF Truthy(market_data)
                      THEN Get(market_data, "indicators", EmptyD) ELSE EmptyD
    IN  IF DOMAIN indicators # {}
        THEN Get(indicators, "rsi_14", Get(indicators, "rsi", 500))
        ELSE 500

\* the rules tried in the order of the comment at lines 446-450 (the
\* sentiment rules before the RSI rules)
DecisionRulesSentimentFirst(sentiment_score, rsi, price_change_24h) ==
    IF sentiment_score > 5 /\ rsi < 700
    THEN [direction |-> "LONG", confidence |-> 7, reasoning |-> "bullish"]
    ELSE IF sentiment_score < -5 /\ rsi > 300
    THEN [direction |-> "SHORT", confidence |-> 7, reasoning |-> "bearish"]
    ELSE IF rsi > 800 /\ price_change_24h > 50
    THEN [direction |-> "SHORT", confidence |-> 8, reasoning |-> "overbought"]
    ELSE IF rsi < 200 /\ price_change_24h < -50
    THEN [direction |-> "LONG", confidence |-> 8, reasoning |-> "oversold"]
    ELSE [direction |-> "NEUTRAL", confidence |-> 5,
          reasoning |-> "No strong signals detected"]

\* the bearish rule with a non-strict RSI bound (rsi >= 30)
DecisionRulesInclusive(sentiment_score, rsi, price_change_24h) ==
    IF rsi > 800 /\ price_change_24h > 50
    THEN [direction |-> "SHORT", confidence |-> 8, reasoning |-> "overbought"]
    ELSE IF rsi < 200 /\ price_change_24h < -50
    THEN [direction |-> "LONG", confidence |-> 8, reasoning |-> "oversold"]
    ELSE IF sentiment_score > 5 /\ rsi < 700
    THEN [direction |-> "LONG", confidence |-> 7, reasoning |-> "bullish"]
    ELSE IF sentiment_score < -5 /\ rsi >= 300
    THEN [direction |-> "SHORT", confidence |-> 7, reasoning |-> "bearish"]
    ELSE [direction |-> "NEUTRAL", confidence |-> 5,
          reasoning |-> "No strong signals detected"]

\* the if/elif chain of lines 454-483.  The reasoning text is abstracted to
\* the name of the rule that fired.
DecisionRules(sentiment_score, rsi, price_change_24h) ==
    IF rsi > 800 /\ price_change_24h > 50
    THEN [direction |-> "SHORT", confidence |-> 8, reasoning |-> "overbought"]
    ELSE IF rsi < 200 /\ price_change_24h < -50
    THEN [direction |-> "LONG", confidence |-> 8, reasoning |-> "oversold"]
    ELSE IF sentiment_score > 5 /\ rsi < 700
    THEN [direction |-> "LONG", confidence |-> 7, reasoning |-> "bullish"]
    ELSE IF sentiment_score < -5 /\ rsi > 300
    THEN [direction |-> "SHORT", confidence |-> 7, reasoning |-> "bearish"]
    ELSE [direction |-> "NEUTRAL", confidence |-> 5,
          reasoning |-> "No strong signals detected"]

\* the decision without the no-data check of lines 418-425
MakeTradingDecisionNoDataCheck(symbol, market_data, sentiment_data) ==
    DecisionRules(ReadSentiment(sentiment_data), ReadRsi(market_data),
                  ReadChange(market_data))

\* _make_trading_decision(symbol, market_data, sentiment_data)
MakeTradingDecision(symbol, market_data, sentiment_data) ==
    IF ~Truthy(market_data) /\ ~Truthy(sentiment_data)
    THEN [direction |-> "NEUTRAL", confidence |-> 0,
          reasoning |-> "Insufficient data for trading decision"]
    ELSE DecisionRules(ReadSentiment(sentiment_data), ReadRsi(market_data),
                       ReadChange(market_data))

-----------------------------------------------------------------------------
(* Input grids for the decision engine *)

\* sentiment scores, in tenths
SentimentGrid == {-7, -6, -5, 0, 5, 6, 7}

\* RSI readings, in tenths
RsiGrid == {199, 200, 300, 301, 500, 699, 700, 800, 801}

\* 24h changes, in tenths of a percent
ChangeGrid == {-51, -50, 0, 50, 51}

\* an optional value: <<>> when absent, <<v>> when present
Opt(S) == {<<>>} \cup {<<v>> : v \in S}

\* indicator dictionaries: {}, {rsi_14}, {rsi}, {rsi_14, rsi}
IndicatorDicts ==
    {EmptyD}
    \cup {[rsi_14 |-> r] : r \in RsiGrid}
    \cup {[rsi |-> r] : r \in RsiGrid}
    \cup {[rsi_14 |-> r, rsi |-> q] : r \in RsiGrid, q \in {199, 801}}

\* the market-data dictionary with a symbol and the optional entries given
MarketDict(symbol, p, c, i) ==
    [k \in {"symbol"}
           \cup (IF p = <<>> THEN {} ELSE {"current_price"})
           \cup (IF c = <<>> THEN {} ELSE {"24h_change_percent"})
           \cup (IF i = <<>> THEN {} ELSE {"indicators"}) |->
        CASE k = "symbol" -> symbol
          [] k = "current_price" -> p[1]
          [] k = "24h_change_percent" -> c[1]
          [] k = "indicators" -> i[1]]

\* sentiment data as a caller may supply it: None, {}, a dictionary without
\* a score, or one with a score
SentimentDicts(scores) ==
    {NoneD, EmptyD, [sentiment_label |-> "Neutral"]}
    \cup {[average_sentiment |-> s, sentiment_label |-> "label"] : s \in scores}

-----------------------------------------------------------------------------
(* Symbols *)

\* the symbols of the model
Symbols == {"ETH", "ETH-PERP", "eth", "DOGE", "BTC"}

\* lines 246-248: symbol.replace("-PERP", "") when "-PERP" is in the symbol
\* (no upper-casing there), tabulated on Symbols
StripPerp(symbol) ==
    CASE symbol = "ETH-PERP" -> "ETH"
      [] OTHER -> symbol

\* _format_symbol: upper-case, then drop -PERP, /USD or a trailing USDT,
\* tabulated on Symbols
FormatSymbol(symbol) ==
    CASE symbol = "ETH-PERP" -> "ETH"
      [] symbol = "eth" -> "ETH"
      [] OTHER -> symbol

\* default_prices.get(clean_symbol, 2000) of lines 233-240, in cents
DefaultPrice(clean_symbol) ==
    CASE clean_symbol = "BTC" -> 6000000
      [] clean_symbol = "ETH" -> 300000
      [] clean_symbol = "SOL" -> 10000
      [] clean_symbol = "AVAX" -> 3500
      [] OTHER -> 200000

\* str.upper() on the direction strings of the model
Upper(s) ==
    CASE s = "long" -> "LONG"
      [] s = "short" -> "SHORT"
      [] s = "neutral" -> "NEUTRAL"
      [] OTHER -> s

-----------------------------------------------------------------------------
(* The world a TradingExecutionTool call runs in.                          *)
(*   info, exchange : whether self.info / self.exchange is set             *)
(*   key            : "none" | "valid" | "invalid", config's private key   *)
(*   ctor_fail      : how many of the next Info(...) constructions raise   *)
(*   mids           : what the next calls of info.all_mids() do: a         *)
(*                    dictionary coin -> mid price, or RaiseD              *)
(*   exch           : what exchange.market_open does                       *)
(*   log            : the calls made so far, in order                      *)

\* an outcome that raises
RaiseD == [raises |-> TRUE]

Raises(x) == "raises" \in DOMAIN x

Ev(name, arg) == [ev |-> name, arg |-> arg]

Logged(w, name, arg) == [w EXCEPT !.log = Append(@, Ev(name, arg))]

\* the events named `name` in a log
Events(log, name) == SelectSeq(log, LAMBDA e : e.ev = name)

\* what a method hands back: a value returned or an exception raised
Return(v, w) == [kind |-> "return", val |-> v, w |-> w]

Raise(e, w) == [kind |-> "raise", val |-> e, w |-> w]

\* time.time(): the clock is not modelled, every reading is this token
Now == "time()"

-----------------------------------------------------------------------------
(* TradingExecutionTool._get_market_price *)

\* F(v), with v evaluated once
Bind(v, F(_)) == CHOOSE r \in {F(x) : x \in {v}} : TRUE

\* _get_market_price retrying while retry_count < 3: one attempt more
RECURSIVE GetMarketPriceFourAttempts(_, _, _)
GetMarketPriceFourAttempts(symbol, retry_count, world) ==
    LET handler(wx) ==
            IF retry_count < 3
            THEN GetMarketPriceFourAttempts(symbol, retry_count + 1,
                                            Logged(wx, "sleep", 1))
            ELSE Return(200000, wx)
        query(w1) ==
            Bind(IF w1.mids = <<>> THEN RaiseD ELSE Head(w1.mids), LAMBDA all_mids :
            Bind([Logged(w1, "all_mids", all_mids) EXCEPT
                     !.mids = IF @ = <<>> THEN @ ELSE Tail(@)], LAMBDA w2 :
                IF Raises(all_mids) THEN handler(w2)
                ELSE IF StripPerp(symbol) \in DOMAIN all_mids
                THEN Return(all_mids[StripPerp(symbol)], w2)
                ELSE handler(w2)))
    IN  Bind(world, LAMBDA w :
        Bind(IF w.info THEN w
             ELSE [Logged(w, "Info", retry_count) EXCEPT
                      !.info = (w.ctor_fail = 0),
                      !.ctor_fail = IF @ > 0 THEN @ - 1 ELSE 0], LAMBDA w1 :
            IF ~w1.info THEN handler(w1)
            ELSE IF retry_count > 0
            THEN Return(DefaultPrice(FormatSymbol(symbol)), w1)
            ELSE query(w1)))

\* _get_market_price(symbol, retry_count): returns the price in cents; it
\* never raises (every exception is caught at lines 269-275)
RECURSIVE GetMarketPrice(_, _, _)
GetMarketPrice(symbol, retry_count, world) ==
    LET \* lines 269-275: the except branch
        handler(wx) ==
            IF retry_count < 2
            THEN GetMarketPrice(symbol, retry_count + 1, Logged(wx, "sleep", 1))
            ELSE Return(200000, wx)
        \* lines 242-267: ask the live service
        query(w1) ==
            Bind(IF w1.mids = <<>> THEN RaiseD ELSE Head(w1.mids), LAMBDA all_mids :
            Bind([Logged(w1, "all_mids", all_mids) EXCEPT
                     !.mids = IF @ = <<>> THEN @ ELSE Tail(@)], LAMBDA w2 :
                IF Raises(all_mids) THEN handler(w2)
                ELSE IF StripPerp(symbol) \in DOMAIN all_mids
                THEN Return(all_mids[StripPerp(symbol)], w2)
                ELSE IF retry_count < 2
                THEN GetMarketPrice(symbol, retry_count + 1, Logged(w2, "sleep", 1))
                ELSE Return(200000, w2)))
    IN  Bind(world, LAMBDA w :
        \* lines 223-225: create the Info client when there is none
        Bind(IF w.info THEN w
             ELSE [Logged(w, "Info", retry_count) EXCEPT
                      !.info = (w.ctor_fail = 0),
                      !.ctor_fail = IF @ > 0 THEN @ - 1 ELSE 0], LAMBDA w1 :
            IF ~w1.info THEN handler(w1)
            ELSE IF retry_count > 0
            THEN \* lines 231-240: a retry answers from the default table
                 Return(DefaultPrice(FormatSymbol(symbol)), w1)
            ELSE query(w1)))

-----------------------------------------------------------------------------
(* TradingExecutionTool._init_exchange *)

\* _init_exchange(): sets self.exchange (and self.info) from the private
\* key; returns without an exchange when no key is configured; re-raises
\* what from_key or Info(...) raises
InitExchange(world) ==
    Bind(world, LAMBDA w :
        IF w.exchange THEN Return("None", w)
        ELSE IF w.key = "none" THEN Return("None", w)
        ELSE IF w.key = "invalid"
        THEN Raise("from_key", Logged(w, "from_key", "invalid"))
        ELSE
        Bind([Logged(w, "Exchange", "valid") EXCEPT !.exchange = TRUE], LAMBDA w1 :
            IF w1.info THEN Return("None", w1)
            ELSE IF w1.ctor_fail > 0
            THEN Raise("Info", [Logged(w1, "Info", "init") EXCEPT !.ctor_fail = @ - 1])
            ELSE Return("None", [Logged(w1, "Info", "init") EXCEPT !.info = TRUE])))

-----------------------------------------------------------------------------
(* TradingExecutionTool._place_order *)

\* n / d truncated instead of rounded
TruncDiv(n, d) == n \div d

\* round(n / d, 0) for n >= 0, d > 0: Python rounds halves to even
RoundDiv(n, d) ==
    LET q == n \div d
        r == n % d
    IN  IF 2 * r < d THEN q
        ELSE IF 2 * r > d THEN q + 1
        ELSE IF q % 2 = 0 THEN q ELSE q + 1

\* size * price < limit, for size >= 0 and price >= 0, computed by a
\* division so that the product of a large size and a large price is
\* never formed
NotionalBelow(size, price, limit) ==
    price = 0 \/ size <= (limit - 1) \div price

\* the dictionary an exchange call answers with
ExchangeAnswer(outcome, size, px) ==
    CASE outcome = "filled" ->
           [status |-> "ok",
            response |-> [type |-> "order",
                          data |-> [statuses |->
                             <<[filled |-> [oid |-> "oid", totalSz |-> size,
                                            avgPx |-> px]]>>]]]
      [] outcome = "rejected" ->
           [status |-> "ok",
            response |-> [type |-> "order",
                          data |-> [statuses |-> <<[error |-> "rejected"]>>]]]
      [] OTHER ->
           [status |-> "err", response |-> [text |-> "exchange error"]]

\* the except branch of lines 387-402
PlaceOrderError(msg, w) == Return([status |-> "error", message |-> msg,
                                   details |-> [error |-> msg]], w)

\* lines 316-323: the simulated fill; avgPx is
\* `price or self._get_market_price(symbol)`
PlaceOrderDry(symbol, size, price, w) ==
    Bind(IF price # <<>> /\ price[1] # 0
         THEN Return(price[1], w)
         ELSE GetMarketPrice(symbol, 0,
                  Logged(w, "_get_market_price", "_place_order")), LAMBDA p :
        Return([status |-> "ok",
                response |-> [type |-> "success",
                              data |-> [statuses |->
                                 <<[filled |-> [oid |-> Now, totalSz |-> size,
                                                avgPx |-> p.val]]>>]],
                dry_run |-> TRUE], p.w))

\* the exchange method `method` called with `arg`: self.exchange may be
\* None (AttributeError), the call may raise, or it answers
ExchangeCall(method, arg, size, px, w) ==
    IF ~w.exchange THEN PlaceOrderError("AttributeError", w)
    ELSE IF w.exch = "raise"
    THEN PlaceOrderError("exchange raised", Logged(w, method, arg))
    ELSE Return(ExchangeAnswer(w.exch, size, px), Logged(w, method, arg))

\* lines 325-385: the live order
PlaceOrderLive(symbol, side, size, order_type, price, reduce_only, w) ==
    \* lines 326-327
    Bind(IF w.exchange THEN Return("None", w)
         ELSE InitExchange(Logged(w, "_init_exchange", "_place_order")), LAMBDA i :
    IF i.kind = "raise" THEN PlaceOrderError(i.val, i.w)
    ELSE
    \* lines 334-342: the minimum order value, 10.5 dollars
    Bind(GetMarketPrice(symbol, 0,
             Logged(i.w, "_get_market_price", "_place_order")), LAMBDA g :
    IF NotionalBelow(size, g.val, 10500000) /\ g.val = 0
    THEN PlaceOrderError("ZeroDivisionError", g.w)
    ELSE
    Bind(IF NotionalBelow(size, g.val, 10500000)
         THEN RoundDiv(10500000, g.val) ELSE size,
         LAMBDA adjusted :
    IF order_type = "market"
    THEN IF reduce_only
         THEN ExchangeCall("market_close", [coin |-> FormatSymbol(symbol)],
                           adjusted, g.val, g.w)
         ELSE ExchangeCall("market_open",
                           [coin |-> FormatSymbol(symbol), is_buy |-> (side = "b"),
                            sz |-> adjusted, px |-> g.val],
                           adjusted, g.val, g.w)
    ELSE IF order_type = "limit" /\ price # <<>>
    THEN ExchangeCall("order",
                      [coin |-> FormatSymbol(symbol), is_buy |-> (side = "b"),
                       sz |-> adjusted, limit_px |-> price[1],
                       reduce_only |-> reduce_only],
                      adjusted, price[1], g.w)
    ELSE Return([status |-> "error",
                 message |-> "Invalid order type or missing price"], g.w))))

\* _place_order(symbol, side, size, order_type, price, reduce_only,
\* dry_run); price is <<>> for None.  It never raises.
PlaceOrder(symbol, side, size, order_type, price, reduce_only, dry_run, w) ==
    IF dry_run
    THEN PlaceOrderDry(symbol, size, price, w)
    ELSE PlaceOrderLive(symbol, side, size, order_type, price, reduce_only, w)

-----------------------------------------------------------------------------
(* TradingExecutionTool.execute_trade *)

\* lines 153-161: the result for a NEUTRAL decision
NotExecuted(symbol, direction, w) ==
    Return([symbol |-> symbol, direction |-> direction,
            status |-> "not_executed", reason |-> "Neutral recommendation",
            timestamp |-> Now], w)

\* lines 182-208: the result dictionary built from what _place_order
\* answered
TradeResultBase(symbol, direction, dry_run, amount, current_price, size, entry_result) ==
    Bind(IF /\ "response" \in DOMAIN entry_result
            /\ "data" \in DOMAIN entry_result["response"]
         THEN <<Get(entry_result["response"]["data"]["statuses"][1],
                    "filled", EmptyD)>>
         ELSE <<>>, LAMBDA filled :
         [symbol |-> symbol, direction |-> direction,
          order_id |-> IF filled # <<>> THEN Get(filled[1], "oid", "unknown")
                       ELSE IF dry_run THEN "dry-run-time()" ELSE "unknown",
          status |-> IF entry_result["status"] = "ok" THEN "executed" ELSE "failed",
          price |-> IF filled # <<>> THEN Get(filled[1], "avgPx", current_price)
                    ELSE current_price,
          size |-> IF filled # <<>> THEN Get(filled[1], "totalSz", size) ELSE size,
          amount |-> amount, timestamp |-> Now])

\* the result without the error details of lines 211-213
TradeResultNoError(symbol, direction, dry_run, amount, current_price, size, entry_result) ==
    TradeResultBase(symbol, direction, dry_run, amount, current_price, size,
                    entry_result)

\* lines 182-217: the result, with error and details when the order failed
TradeResult(symbol, direction, dry_run, amount, current_price, size, entry_result) ==
    Bind(TradeResultBase(symbol, direction, dry_run, amount, current_price,
                         size, entry_result), LAMBDA result :
        IF entry_result["status"] = "ok" THEN result
        ELSE [k \in DOMAIN result \cup {"error", "details"} |->
                CASE k = "error" -> Get(entry_result, "message", "Unknown error")
                  [] k = "details" -> entry_result
                  [] OTHER -> result[k]])

\* lines 163-217: price, size, order, result.  amount / current_price
\* raises ZeroDivisionError when the price is 0.
ExecuteOrder(symbol, direction, dry_run, amount, market_data, w) ==
    Bind(GetMarketPrice(symbol, 0,
             Logged(w, "_get_market_price", "execute_trade")), LAMBDA g :
    IF g.val = 0 THEN Raise("ZeroDivisionError", g.w)
    ELSE
    Bind(RoundDiv(amount * 10000, g.val), LAMBDA size :
    Bind(PlaceOrder(symbol, IF direction = "LONG" THEN "b" ELSE "a", size,
                    "market", <<>>, FALSE, dry_run,
                    Logged(g.w, "_place_order",
                           [side |-> IF direction = "LONG" THEN "b" ELSE "a",
                            size |-> size, dry_run |-> dry_run,
                            price |-> g.val])), LAMBDA p :
        Return(TradeResult(symbol, direction, dry_run, amount, g.val, size, p.val),
               Logged(p.w, "_place_order returned", p.val["status"])))))

\* execute_trade without the NEUTRAL short-circuit of lines 153-161
ExecuteTradeNoNeutral(decision, dry_run, amount, market_data, w) ==
    ExecuteOrder(Get(decision, "symbol", "BTC"), Get(decision, "decision", "NEUTRAL"),
                 dry_run, amount, market_data, Logged(w, "execute_trade", decision))

\* execute_trade(decision, dry_run, amount, market_data)
ExecuteTrade(decision, dry_run, amount, market_data, w) ==
    IF Get(decision, "decision", "NEUTRAL") = "NEUTRAL"
    THEN NotExecuted(Get(decision, "symbol", "BTC"), "NEUTRAL",
                     Logged(w, "execute_trade", decision))
    ELSE ExecuteOrder(Get(decision, "symbol", "BTC"), decision["decision"],
                      dry_run, amount, market_data,
                      Logged(w, "execute_trade", decision))

-----------------------------------------------------------------------------
(* TradingExecutionTool.run *)

\* MIN_TRADE_AMOUNT = 10.0, in cents
MIN_TRADE_AMOUNT == 1000

\* lines 102-108: the result for an amount below the minimum
BelowMinimum(symbol, direction, w) ==
    Return([symbol |-> symbol,
            direction |-> IF TruthyStr(direction) THEN direction ELSE "NEUTRAL",
            status |-> "failed", error |-> "Amount is below minimum",
            timestamp |-> Now], w)

\* the direction resolved by the decision engine whenever data are supplied
RunTradeDataFirst(symbol, direction, amount, market_data, sentiment_data, dry_run, w) ==
    IF TruthyStr(direction) /\ ~Truthy(market_data) /\ ~Truthy(sentiment_data)
    THEN ExecuteTrade([symbol |-> symbol, decision |-> Upper(direction)],
                      dry_run, amount, market_data, w)
    ELSE Bind(MakeTradingDecision(symbol, market_data, sentiment_data),
              LAMBDA trade_decision :
                ExecuteTrade([symbol |-> symbol,
                              decision |-> trade_decision["direction"]],
                             dry_run, amount, market_data,
                             Logged(w, "_make_trading_decision", trade_decision)))

\* lines 110-130: resolve the direction, then execute_trade
RunTrade(symbol, direction, amount, market_data, sentiment_data, dry_run, w) ==
    IF TruthyStr(direction)
    THEN ExecuteTrade([symbol |-> symbol, decision |-> Upper(direction)],
                      dry_run, amount, market_data, w)
    ELSE Bind(MakeTradingDecision(symbol, market_data, sentiment_data),
              LAMBDA trade_decision :
                ExecuteTrade([symbol |-> symbol,
                              decision |-> trade_decision["direction"]],
                             dry_run, amount, market_data,
                             Logged(w, "_make_trading_decision", trade_decision)))

\* the minimum enforced in dry-run mode too
RunMinimumAlways(symbol, direction, amount, market_data, sentiment_data, dry_run, w) ==
    IF amount < MIN_TRADE_AMOUNT
    THEN BelowMinimum(symbol, direction, w)
    ELSE RunTrade(symbol, direction, amount, market_data, sentiment_data, dry_run, w)

\* run(symbol, direction, amount, market_data, sentiment_data, dry_run);
\* direction is "None" for None
Run(symbol, direction, amount, market_data, sentiment_data, dry_run, w) ==
    IF amount < MIN_TRADE_AMOUNT /\ ~dry_run
    THEN BelowMinimum(symbol, direction, w)
    ELSE RunTrade(symbol, direction, amount, market_data, sentiment_data, dry_run, w)

-----------------------------------------------------------------------------
(* The harness: one call of an entry point of TradingExecutionTool, with   *)
(* its arguments and the tool's state drawn from bounded sets              *)

\* process_prompt at rest
OrchIdle ==
    /\ pc = "idle"
    /\ prompt_args = EmptyD
    /\ turn_count = 0
    /\ made_tool_calls = FALSE
    /\ assistant_message = NoneD
    /\ context = EmptyD
    /\ requests = <<>>
    /\ trade_runs = <<>>
    /\ returned = NoneD
    /\ engine = [tools |-> {}, tool_specs |-> <<>>]

\* direction arguments: None, "", and strings in both cases, one of them
\* not a direction at all
DirectionInputs == {"None", "", "LONG", "short", "NEUTRAL", "neutral", "HOLD"}

\* amounts in cents: 0, 0.01, 9.99, 10 and 100 dollars
Amounts == {0, 1, 999, 1000, 10000}

ExecSymbols == {"ETH", "ETH-PERP", "DOGE", "BTC"}

\* market data for the harness: None, {}, an overbought market with a
\* current price, an oversold market without one
ExecMarketDicts ==
    {NoneD, EmptyD,
     MarketDict("ETH", <<290000>>, <<51>>, <<[rsi_14 |-> 801]>>),
     MarketDict("ETH", <<>>, <<-51>>, <<[rsi |-> 199]>>)}

ExecSentimentDicts == {NoneD, [average_sentiment |-> 7, sentiment_label |-> "Positive"]}

\* the tool as __init__ and earlier calls can leave it: no key; a key and
\* an Info client; the exchange already connected; a key from_key rejects
ToolStates ==
    {[key |-> "none", info |-> FALSE, exchange |-> FALSE],
     [key |-> "valid", info |-> TRUE, exchange |-> FALSE],
     [key |-> "valid", info |-> TRUE, exchange |-> TRUE],
     [key |-> "invalid", info |-> FALSE, exchange |-> FALSE]}

\* what info.all_mids() may answer: quotes (in cents), a quote of zero, or
\* an exception
QuotesA == [BTC |-> 7200000, ETH |-> 310000]
QuotesB == [BTC |-> 7200000, ETH |-> 320000]
QuotesZero == [BTC |-> 7200000, ETH |-> 0]
MidsOutcomes == {QuotesA, QuotesB, QuotesZero, RaiseD}

ExchangeOutcomes == {"filled", "rejected", "err", "raise"}

\* how many Info(...) constructions in a row may fail
MaxCtorFail == 3

World(self, ctor_fail, mids, exch) ==
    [info |-> self.info, exchange |-> self.exchange, key |-> self.key,
     ctor_fail |-> ctor_fail, mids |-> mids, exch |-> exch, log |-> <<>>]

\* what the harness keeps of an outcome: the value returned or raised, the
\* calls made, and the tool's state afterwards
Outcome(result) ==
    Bind(result, LAMBDA r :
        [kind |-> r.kind, val |-> r.val, log |-> r.w.log,
         info |-> r.w.info, exchange |-> r.w.exchange])

NoOutcome == [kind |-> "none"]

\* decision dictionaries handed to execute_trade directly
DecisionInputs == {"LONG", "SHORT", "NEUTRAL", "neutral", "HOLD"}

TradeDecisions ==
    {[symbol |-> s, decision |-> d] : s \in ExecSymbols, d \in DecisionInputs}
    \cup {[symbol |-> "ETH"], EmptyD}

InitExec ==
    /\ OrchIdle
    /\ hpc = "called"
    /\ ret = NoOutcome
    /\ \E a \in Amounts, dr \in BOOLEAN, self \in ToolStates :
          \/ \E s \in ExecSymbols, d \in DirectionInputs,
                m \in ExecMarketDicts, sd \in ExecSentimentDicts :
                call = [op |-> "run", symbol |-> s, direction |-> d,
                        amount |-> a, market_data |-> m, sentiment_data |-> sd,
                        dry_run |-> dr, self |-> self]
          \/ \E dec \in TradeDecisions :
                call = [op |-> "execute_trade", decision |-> dec, amount |-> a,
                        market_data |-> NoneD, dry_run |-> dr, self |-> self]

\* the worlds a call may meet: the environment's answers are chosen only
\* where the call can consume them
Worlds(self, dry_run) ==
    {World(self, f, <<m1, m2>>, x) :
        f \in (IF self.info THEN {0} ELSE {0, MaxCtorFail}),
        m1 \in MidsOutcomes \ {QuotesB}, m2 \in MidsOutcomes \ {QuotesA},
        x \in (IF dry_run THEN {"filled"} ELSE ExchangeOutcomes)}

\* tool.run(symbol, direction, amount, market_data, sentiment_data, dry_run)
CallRun ==
    /\ hpc = "called"
    /\ call.op = "run"
    /\ \E w \in Worlds(call.self, call.dry_run) :
          ret' = Outcome(Run(call.symbol, call.direction, call.amount,
                             call.market_data, call.sentiment_data,
                             call.dry_run, w))
    /\ hpc' = "returned"
    /\ UNCHANGED <<call, pc, prompt_args, turn_count, made_tool_calls,
                   assistant_message, context, requests, trade_runs, returned, engine>>

\* tool.execute_trade(decision, dry_run, amount, market_data)
CallExecuteTrade ==
    /\ hpc = "called"
    /\ call.op = "execute_trade"
    /\ \E w \in Worlds(call.self, call.dry_run) :
          ret' = Outcome(ExecuteTrade(call.decision, call.dry_run, call.amount,
                                      call.market_data, w))
    /\ hpc' = "returned"
    /\ UNCHANGED <<call, pc, prompt_args, turn_count, made_tool_calls,
                   assistant_message, context, requests, trade_runs, returned, engine>>

NextExec == CallRun \/ CallExecuteTrade

SpecExec == InitExec /\ [][NextExec]_vars

-----------------------------------------------------------------------------
(* What the harness observed *)

RunReturned == hpc = "returned" /\ call.op = "run"

TradeReturned == hpc = "returned" /\ call.op = "execute_trade"

\* the call handed back a result with this status
Status(s) == ret.kind = "return" /\ ret.val["status"] = s

\* run rejected the call at the minimum-amount check
Rejected == call.op = "run" /\ call.amount < MIN_TRADE_AMOUNT /\ ~call.dry_run

\* the decision dictionary execute_trade received
TradeDecision ==
    IF call.op = "execute_trade" THEN call.decision
    ELSE Events(ret.log, "execute_trade")[1].arg

\* execute_trade was entered
TradeEntered == Events(ret.log, "execute_trade") # <<>>

\* the direction execute_trade acted on
TradeDirection == Get(TradeDecision, "decision", "NEUTRAL")

\* the calls to the exchange's order methods
OrderCalls ==
    SelectSeq(ret.log, LAMBDA e : e.ev \in {"market_open", "market_close", "order"})

\* the steps that connect the exchange
ExchangeInits ==
    SelectSeq(ret.log, LAMBDA e : e.ev \in {"_init_exchange", "from_key", "Exchange"})

PriceLookups == Events(ret.log, "_get_market_price")

LiveQueries == Events(ret.log, "all_mids")

Placements == Events(ret.log, "_place_order")

DecisionsMade == Events(ret.log, "_make_trading_decision")

-----------------------------------------------------------------------------
(* Claims about TradingExecutionTool, checked under SpecExec *)

\* the direction the arguments of run resolve to: the explicit direction
\* upper-cased, else the decision engine's
ResolvedDirection ==
    IF TruthyStr(call.direction) THEN Upper(call.direction)
    ELSE MakeTradingDecision(call.symbol, call.market_data,
                             call.sentiment_data)["direction"]

\* C3 as stated: run and execute_trade return status not_executed if and
\* only if the resolved direction is NEUTRAL, for every amount, dry_run and
\* direction source, and then no price lookup and no order placement occurs.
C3_NotExecutedIffNeutral ==
    /\ RunReturned =>
         /\ Status("not_executed") <=> (ResolvedDirection = "NEUTRAL")
         /\ ResolvedDirection = "NEUTRAL" =>
              PriceLookups = <<>> /\ Placements = <<>> /\ OrderCalls = <<>>
    /\ TradeReturned =>
         /\ Status("not_executed") <=> (TradeDirection = "NEUTRAL")
         /\ TradeDirection = "NEUTRAL" =>
              PriceLookups = <<>> /\ Placements = <<>> /\ OrderCalls = <<>>

\* C3 amended: run returns status not_executed if and only if the resolved
\* direction is NEUTRAL and the call is not rejected by the live-mode
\* minimum-amount check (amount below $10 with dry_run false, which returns
\* failed before the direction is resolved); execute_trade returns
\* not_executed if and only if its decision is NEUTRAL; whenever the
\* resolved direction is NEUTRAL no price lookup and no order placement
\* occurs.
C3_NotExecutedIffNeutralUnlessRejected ==
    /\ RunReturned =>
         /\ Status("not_executed") <=> (~Rejected /\ ResolvedDirection = "NEUTRAL")
         /\ ~Rejected => TradeEntered /\ TradeDirection = ResolvedDirection
         /\ ResolvedDirection = "NEUTRAL" =>
              PriceLookups = <<>> /\ Placements = <<>> /\ OrderCalls = <<>>
    /\ TradeReturned =>
         /\ Status("not_executed") <=> (TradeDirection = "NEUTRAL")
         /\ TradeDirection = "NEUTRAL" =>
              PriceLookups = <<>> /\ Placements = <<>> /\ OrderCalls = <<>>

\* a NEUTRAL direction, explicit in lower case, answered with not_executed
C3_Witness ==
    /\ RunReturned /\ call.direction = "neutral" /\ Status("not_executed")
    /\ call.amount < MIN_TRADE_AMOUNT /\ call.dry_run

\* C4: with an amount below the $10 minimum, a dry-run call never fails
\* because of the amount: it goes on to execute_trade, and for a direction
\* other than NEUTRAL to sizing and the simulated placement, ending executed
\* (the only other outcome is the division by a quoted price of zero, which
\* is raised in sizing); a live call returns status failed with the
\* minimum-amount error and makes no price lookup and no order placement.
C4_SubMinimumAmount ==
    RunReturned /\ call.amount < MIN_TRADE_AMOUNT =>
        IF call.dry_run
        THEN /\ ~Status("failed")
             /\ TradeEntered
             /\ TradeDirection # "NEUTRAL" =>
                  /\ PriceLookups # <<>>
                  /\ \/ /\ Status("executed")
                        /\ Len(Placements) = 1
                        /\ Placements[1].arg.dry_run
                        /\ OrderCalls = <<>>
                     \/ /\ ret.kind = "raise"
                        /\ ret.val = "ZeroDivisionError"
                        /\ Len(LiveQueries) = 1
                        /\ Get(LiveQueries[1].arg, StripPerp(call.symbol), 1) = 0
        ELSE /\ Status("failed")
             /\ ret.val["error"] = "Amount is below minimum"
             /\ ret.log = <<>>

\* a sub-minimum LONG executed in dry-run mode
C4_Witness ==
    /\ RunReturned /\ call.amount = 999 /\ call.dry_run
    /\ call.direction = "LONG" /\ Status("executed")

\* C5: for any LONG or SHORT trade executed with dry_run = true no exchange
\* order method (market_open, market_close, order) is called, the exchange
\* connection is not initialised, and the result is a success: status
\* executed, with order_id, price and size.
C5_DryRunIsolation ==
    /\ hpc = "returned"
    /\ call.dry_run
    /\ TradeEntered
    /\ TradeDirection \in {"LONG", "SHORT"}
    => /\ OrderCalls = <<>>
       /\ ExchangeInits = <<>>
       /\ ret.exchange = call.self.exchange
       /\ Status("executed")
       /\ {"order_id", "price", "size"} \subseteq DOMAIN ret.val

\* C8 as stated: without sentiment and market data the decision is NEUTRAL
\* with confidence 0.0, and run called without an explicit direction then
\* returns status not_executed.
C8_NoDataNotExecuted ==
    /\ RunReturned
    /\ ~Truthy(call.market_data) /\ ~Truthy(call.sentiment_data)
    => /\ \A i \in 1..Len(DecisionsMade) :
            /\ DecisionsMade[i].arg["direction"] = "NEUTRAL"
            /\ DecisionsMade[i].arg["confidence"] = 0
       /\ ~TruthyStr(call.direction) => Status("not_executed")

\* C8 amended: without sentiment and market data the decision is NEUTRAL
\* with confidence 0.0 (the decision engine never yields LONG or SHORT
\* without a reading), and run called without an explicit direction then
\* returns status not_executed, except in live mode with an amount below the
\* $10 minimum, where it returns failed with direction NEUTRAL before the
\* decision engine is consulted.
C8_NoDataNotExecutedUnlessRejected ==
    /\ RunReturned
    /\ ~Truthy(call.market_data) /\ ~Truthy(call.sentiment_data)
    => /\ \A i \in 1..Len(DecisionsMade) :
            /\ DecisionsMade[i].arg["direction"] = "NEUTRAL"
            /\ DecisionsMade[i].arg["confidence"] = 0
       /\ ~TruthyStr(call.direction) =>
            IF Rejected
            THEN /\ Status("failed") /\ ret.val["direction"] = "NEUTRAL"
                 /\ DecisionsMade = <<>>
            ELSE /\ Status("not_executed")
                 /\ Len(DecisionsMade) = 1
                 /\ TradeDirection = "NEUTRAL"
                 /\ PriceLookups = <<>> /\ Placements = <<>>

\* no data, no direction: the engine decided NEUTRAL and nothing was executed
C8_Witness ==
    /\ RunReturned
    /\ IsNone(call.market_data) /\ IsNone(call.sentiment_data)
    /\ call.direction = "None"
    /\ Len(DecisionsMade) = 1
    /\ Status("not_executed")

\* C9: a non-empty direction, upper-cased, is the direction executed and the
\* decision engine is not consulted, whatever data is supplied; the engine
\* is consulted only when no direction is given, and then its direction is
\* the one executed.
C9_ExplicitDirectionPrecedence ==
    RunReturned =>
        /\ TruthyStr(call.direction) =>
             /\ DecisionsMade = <<>>
             /\ TradeEntered =>
                  /\ TradeDirection = Upper(call.direction)
                  /\ TradeDecision["symbol"] = call.symbol
                  /\ ret.kind = "return" => ret.val["direction"] = Upper(call.direction)
        /\ ~TruthyStr(call.direction) /\ TradeEntered =>
             /\ Len(DecisionsMade) = 1
             /\ TradeDirection = DecisionsMade[1].arg["direction"]
        /\ ~Rejected => TradeEntered

\* a lower-case direction executed against data that says otherwise
C9_Witness ==
    /\ RunReturned /\ call.direction = "short"
    /\ Truthy(call.sentiment_data) /\ ~Truthy(call.market_data)
    /\ Status("executed") /\ ret.val["direction"] = "SHORT"

\* C10: when the supplied market data carries a current price, that price
\* sizes the order and no live price lookup is made.
C10_SuppliedPriceUsed ==
    /\ RunReturned
    /\ Truthy(call.market_data)
    /\ "current_price" \in DOMAIN call.market_data
    /\ Placements # <<>>
    => /\ LiveQueries = <<>>
       /\ Placements[1].arg.price = call.market_data["current_price"]
       /\ Placements[1].arg.size =
            RoundDiv(call.amount * 10000, call.market_data["current_price"])

-----------------------------------------------------------------------------
(* The decision engine on its own: _make_trading_decision applied to       *)
(* readings drawn from the grids, wrapped in the dictionaries a caller     *)
(* may supply                                                              *)

\* how a caller without a sentiment score may say so: None, {}, a dictionary
\* without average_sentiment
NoScoreShapes == {NoneD, EmptyD, [sentiment_label |-> "Neutral"]}

\* sentiment data for an optional score
SentimentOf(s, shape) ==
    IF s = <<>> THEN shape
    ELSE [average_sentiment |-> s[1], sentiment_label |-> "label"]

\* under which key the RSI is supplied; with "both", rsi carries a decoy
RsiKeys == {"rsi_14", "rsi", "both"}

\* the indicators entry for an optional RSI: absent or {} when there is none
IndicatorsOf(r, key, empty) ==
    IF r = <<>> THEN (IF empty THEN <<EmptyD>> ELSE <<>>)
    ELSE CASE key = "rsi_14" -> <<[rsi_14 |-> r[1]]>>
           [] key = "rsi" -> <<[rsi |-> r[1]]>>
           [] key = "both" -> <<[rsi_14 |-> r[1], rsi |-> 1000 - r[1]]>>

InitDecide ==
    /\ OrchIdle
    /\ hpc = "called"
    /\ ret = NoOutcome
    /\ \E s \in Opt(SentimentGrid), shape \in NoScoreShapes :
       \E sd \in {SentimentOf(s, shape)} :
          \/ \E m \in {NoneD, EmptyD} :
                call = [op |-> "_make_trading_decision", symbol |-> "ETH",
                        market_data |-> m, sentiment_data |-> sd,
                        sentiment |-> s, rsi |-> <<>>, change |-> <<>>]
          \/ \E r \in Opt(RsiGrid), c \in Opt(ChangeGrid), key \in RsiKeys,
                empty \in BOOLEAN :
                call = [op |-> "_make_trading_decision", symbol |-> "ETH",
                        market_data |->
                            MarketDict("ETH", <<>>, c, IndicatorsOf(r, key, empty)),
                        sentiment_data |-> sd,
                        sentiment |-> s, rsi |-> r, change |-> c]

\* tool._make_trading_decision(symbol, market_data, sentiment_data)
CallDecide ==
    /\ hpc = "called"
    /\ call.op = "_make_trading_decision"
    /\ ret' = [kind |-> "return",
               val |-> MakeTradingDecision(call.symbol, call.market_data,
                                           call.sentiment_data)]
    /\ hpc' = "returned"
    /\ UNCHANGED <<call, pc, prompt_args, turn_count, made_tool_calls,
                   assistant_message, context, requests, trade_runs, returned, engine>>

NextDecide == CallDecide

SpecDecide == InitDecide /\ [][NextDecide]_vars

\* the decision engine returned
Decided == hpc = "returned" /\ call.op = "_make_trading_decision"

\* the decision returned has this direction and confidence (in tenths)
Decision(direction, confidence) ==
    ret.val["direction"] = direction /\ ret.val["confidence"] = confidence

\* the readings the caller put in, with the defaults for the missing ones
GivenSentiment == IF call.sentiment = <<>> THEN 0 ELSE call.sentiment[1]

GivenRsi == IF call.rsi = <<>> THEN 500 ELSE call.rsi[1]

GivenChange == IF call.change = <<>> THEN 0 ELSE call.change[1]

\* neither sentiment data nor market data was supplied (None or {})
NoData ==
    /\ call.market_data \in {NoneD, EmptyD}
    /\ call.sentiment_data \in {NoneD, EmptyD}

-----------------------------------------------------------------------------
(* Claims about the decision engine, checked under SpecDecide *)

-----------------------------------------------------------------------------
(* LLMEngine._execute_tool_call and the tools it can reach *)

\* d with d[k] = v
Put(d, k, v) == [x \in DOMAIN d \cup {k} |-> IF x = k THEN v ELSE d[x]]

\* LLMEngine.AVAILABLE_TOOLS
AVAILABLE_TOOLS == {"TwitterSentimentTool", "MarketDataTool"}

\* an argument payload json.loads rejects
BadJson == [bad_json |-> TRUE]

\* a tool call of the model: the function name and the argument payload
ToolCall(name, args) == [name |-> name, args |-> args]

\* function_name.split("_", 1), tabulated on the function names of the
\* model: <<tool_name, method_name>>, or <<>> when there is no "_"
SplitName(function_name) ==
    CASE function_name = "MarketDataTool_run" -> <<"MarketDataTool", "run">>
      [] function_name = "MarketDataTool_fetch" -> <<"MarketDataTool", "fetch">>
      [] function_name = "MarketDataTool_name" -> <<"MarketDataTool", "name">>
      [] function_name = "TwitterSentimentTool_run" -> <<"TwitterSentimentTool", "run">>
      [] function_name = "TradingExecutionTool_run" -> <<"TradingExecutionTool", "run">>
      [] OTHER -> <<>>

\* getattr(tool_instance, method_name, None) is truthy: the tools' attributes
\* among the method names of the model are the method run and the string
\* name set by both constructors
HasMethod(tool_name, method_name) == method_name \in {"run", "name"}

\* the attribute is a method: inspect.signature accepts it (line 491)
IsMethod(tool_name, method_name) == method_name = "run"

\* inspect.signature(method).parameters of the two run methods
Parameters(tool_name) ==
    CASE tool_name = "MarketDataTool" -> {"symbol", "timeframe"}
      [] tool_name = "TwitterSentimentTool" -> {"symbol", "count"}

\* str.upper() on the symbols of the model
UpperSymbol(symbol) ==
    CASE symbol = "eth" -> "ETH"
      [] symbol = "btc" -> "BTC"
      [] OTHER -> symbol

\* the mark price MarketDataTool reports, in cents
MarkPrice(symbol) ==
    CASE symbol = "BTC" -> 6100000
      [] OTHER -> 290000

\* MarketDataTool.run(symbol): the market data, or the error dictionary when
\* backend = "error" (market info or candles could not be fetched)
MarketDataRun(args, backend) ==
    LET symbol == UpperSymbol(Get(args, "symbol", "ETH"))
    IN  IF backend = "error"
        THEN [symbol |-> symbol, status |-> "error",
              message |-> "Failed to fetch market info", timestamp |-> Now]
        ELSE [symbol |-> symbol, current_price |-> MarkPrice(symbol),
              24h_change_percent |-> 51, indicators |-> [rsi_14 |-> 801],
              timestamp |-> Now]

\* TwitterSentimentTool.run(symbol): synthetic sentiment for the symbol
TwitterSentimentRun(args) ==
    [symbol |-> Get(args, "symbol", "BTC"), average_sentiment |-> 7,
     sentiment_label |-> "Positive", tweet_count |-> 100]

\* {"error": message}
ErrorResult(message) == [error |-> message]

\* the symbol is taken from the context whatever the model supplied
AugmentFromContext(function_args, parameters, ctx) ==
    IF "symbol" \in parameters
    THEN Put(function_args, "symbol", ctx["symbol"])
    ELSE function_args

\* lines 490-498: symbol, dry_run and amount are taken from the context when
\* the method accepts them and the model did not supply them
Augment(function_args, parameters, ctx) ==
    LET a1 == IF "symbol" \in parameters /\ "symbol" \notin DOMAIN function_args
              THEN Put(function_args, "symbol", ctx["symbol"])
              ELSE function_args
        a2 == IF "dry_run" \in parameters /\ "dry_run" \notin DOMAIN a1
              THEN Put(a1, "dry_run", Get(ctx, "dry_run", TRUE))
              ELSE a1
    IN  IF "amount" \in parameters /\ "amount" \notin DOMAIN a2
        THEN Put(a2, "amount", Get(ctx, "amount", 10000))
        ELSE a2

\* the keys of the result are copied into the context, existing keys
\* overwritten
StoreResultLastWins(ctx, tool_key, result) ==
    LET stored == [ctx EXCEPT !["tool_results"] = Put(@, tool_key, result)]
    IN  [k \in DOMAIN stored \cup DOMAIN result |->
            IF k \in DOMAIN result THEN result[k] ELSE stored[k]]

\* lines 585-596: the result is stored under tool_results and its keys are
\* copied into the context, existing keys kept
StoreResult(ctx, tool_key, result) ==
    LET stored == [ctx EXCEPT !["tool_results"] = Put(@, tool_key, result)]
    IN  [k \in DOMAIN stored \cup DOMAIN result |->
            IF k \in DOMAIN stored THEN stored[k] ELSE result[k]]

\* an invocation of a tool's method: the keyword arguments it was given
Invocation(tool_name, method_name, function_args) ==
    [tool |-> tool_name, method |-> method_name, args |-> function_args]

\* method(**function_args) cannot bind its arguments: a keyword the method
\* does not accept is a TypeError before the body runs
BindFails(tool_name, function_args) ==
    ~(DOMAIN function_args \subseteq Parameters(tool_name))

\* the method's body raises: MarketDataTool.run calls symbol.upper() before
\* its try block, an AttributeError when the symbol is None ("None" here)
MethodRaises(tool_name, function_args) ==
    /\ tool_name = "MarketDataTool"
    /\ "symbol" \in DOMAIN function_args
    /\ function_args["symbol"] = "None"

\* the exception of a tool call escapes _execute_tool_call
ExecuteToolCallRaising(result, ctx, called) ==
    [kind |-> IF DOMAIN result = {"error"} THEN "raise" ELSE "return",
     result |-> result, context |-> ctx, called |-> called]

\* what _execute_tool_call hands back: the result returned, the context
\* afterwards and the tool method that was invoked on the way, if any
ToolCallOutcome(result, ctx, called) ==
    [kind |-> "return", result |-> result, context |-> ctx, called |-> called]

\* _execute_tool_call(tool_call, ctx).  The block for TradingExecutionTool
\* (lines 500-553) is never reached: that name is not in AVAILABLE_TOOLS.
ExecuteToolCall(tool_call, ctx, backend) ==
    LET name == SplitName(tool_call.name)
        unchanged(message) == ToolCallOutcome(ErrorResult(message), ctx, <<>>)
    IN  IF tool_call.args = BadJson THEN unchanged("JSONDecodeError")
        ELSE IF name = <<>> THEN unchanged("Invalid function name format")
        ELSE IF name[1] \notin AVAILABLE_TOOLS THEN unchanged("Tool not found")
        ELSE IF ~HasMethod(name[1], name[2]) THEN unchanged("Method not found")
        ELSE IF ~IsMethod(name[1], name[2]) THEN unchanged("TypeError")
        ELSE LET function_args ==
                     Augment(tool_call.args, Parameters(name[1]), ctx)
                 called == <<Invocation(name[1], name[2], function_args)>>
             IN  IF BindFails(name[1], function_args)
                 THEN unchanged("TypeError")
                 ELSE IF MethodRaises(name[1], function_args)
                 THEN ToolCallOutcome(ErrorResult("AttributeError"), ctx, called)
                 ELSE LET result ==
                              IF name[1] = "MarketDataTool"
                              THEN MarketDataRun(function_args, backend)
                              ELSE TwitterSentimentRun(function_args)
                      IN  ToolCallOutcome(result,
                                          StoreResult(ctx, tool_call.name, result),
                                          called)

\* _get_tool_instance (lines 77-88) as reached from _execute_tool_call: the
\* tool a call instantiates and keeps in self.tools, if it gets that far
Loads(tool_call) ==
    LET name == SplitName(tool_call.name)
    IN  IF tool_call.args = BadJson \/ name = <<>> THEN {}
        ELSE {name[1]} \cap AVAILABLE_TOOLS

\* self.tools after the tool calls of a reply
LoadAll(tools, tool_calls) ==
    tools \cup UNION {Loads(tool_calls[i]) : i \in 1..Len(tool_calls)}

\* the for loop of lines 275-283 over the tool calls from position i on
RECURSIVE ExecuteToolCalls(_, _, _, _)
ExecuteToolCalls(tool_calls, i, ctx, backend) ==
    IF i > Len(tool_calls) THEN ctx
    ELSE ExecuteToolCalls(tool_calls, i + 1,
                          ExecuteToolCall(tool_calls[i], ctx, backend).context,
                          backend)

-----------------------------------------------------------------------------
(* LLMEngine.process_prompt *)

\* max_turns
max_turns == 5

\* the tables _generate_tool_specs may iterate over: AVAILABLE_TOOLS as
\* the class defines it, or an empty table
Catalogs == {AVAILABLE_TOOLS, {}}

\* _generate_tool_specs (lines 90-164): one specification for every public
\* method of every tool of the table, named <tool>_<method>
GenerateToolSpecs(catalog) ==
    {function_name \in {"MarketDataTool_run", "TwitterSentimentTool_run"} :
        SplitName(function_name)[1] \in catalog}

\* the error object of lines 199-204
ErrorObject(symbol, message, error) ==
    [symbol |-> symbol, message |-> message, error |-> error, timestamp |-> Now]

\* the generated specifications are not looked at
ValidSpecsAlways(tool_specs) == TRUE

\* the test of line 197 fails: there is a specification
ValidSpecs(tool_specs) == tool_specs # {}

\* the condition of the while loop
LoopGuardInclusive(count, ceiling) == count <= ceiling

LoopGuard(count, ceiling) == count < ceiling

\* what the caller may pass: symbol, dry_run, amount (in cents)
PromptSymbols == {"ETH"}

PromptAmounts == {500, 10000}

\* content of an assistant message: None, "", or a text
Contents == {"None", "", "Here is my analysis."}

\* the tool-call lists the model may answer with
ToolCallLists ==
    {<<ToolCall("MarketDataTool_run", EmptyD)>>,
     <<ToolCall("MarketDataTool_run", [symbol |-> "btc"])>>,
     <<ToolCall("TwitterSentimentTool_run", EmptyD)>>,
     <<ToolCall("TwitterSentimentTool_run", EmptyD),
       ToolCall("MarketDataTool_run", EmptyD)>>,
     <<ToolCall("TwitterSentimentTool_run", [timeframe |-> "1h"])>>,
     <<ToolCall("TradingExecutionTool_run", [direction |-> "LONG"])>>,
     <<ToolCall("MarketDataTool_fetch", EmptyD)>>,
     <<ToolCall("analyze", EmptyD)>>,
     <<ToolCall("MarketDataTool_run", BadJson)>>}

\* how MarketDataTool's backend behaves during a turn
Backends == {"ok", "error"}

\* response.choices[0].message
Message(content, tool_calls) == [content |-> content, tool_calls |-> tool_calls]

\* the recommendation texts the model may answer with in the fallback step
RecommendationTexts ==
    {"Go LONG.", "I would short here.", "No longer a short.", "Stay out.", "None"}

\* recommendation_content.upper() contains the word, tabulated on
\* RecommendationTexts (None counts as "")
Mentions(text, word) ==
    CASE text = "Go LONG." -> word = "LONG"
      [] text = "I would short here." -> word = "SHORT"
      [] text = "No longer a short." -> word \in {"LONG", "SHORT"}
      [] OTHER -> FALSE

\* lines 376-382
ParseRecommendation(recommendation_content) ==
    IF Mentions(recommendation_content, "LONG") THEN "LONG"
    ELSE IF Mentions(recommendation_content, "SHORT") THEN "SHORT"
    ELSE "NEUTRAL"

\* tool_key.startswith("TradingExecutionTool"), on the keys of the model
TradingToolUsed(ctx) == "TradingExecutionTool_run" \in DOMAIN ctx["tool_results"]

\* the first result of a tool that carries the field, else None (lines
\* 404-417; each tool of the model stores under one key)
ResultWith(ctx, tool_key, field) ==
    IF tool_key \in DOMAIN ctx["tool_results"]
       /\ field \in DOMAIN ctx["tool_results"][tool_key]
    THEN ctx["tool_results"][tool_key]
    ELSE NoneD

\* the condition of line 317
FallbackGuard(message, made) ==
    ~IsNone(message) /\ message.tool_calls = <<>> /\ made

\* a TradingExecutionTool as __init__ leaves it: no key, or a key and an
\* Info client
FreshTools ==
    {[key |-> "none", info |-> FALSE, exchange |-> FALSE],
     [key |-> "valid", info |-> TRUE, exchange |-> FALSE]}

\* the worlds the fallback execution may meet
FallbackWorlds(dry_run) ==
    {World(self, 0, <<m, m>>, x) :
        self \in FreshTools, m \in {QuotesA, QuotesZero, RaiseD},
        x \in (IF dry_run THEN {"filled"} ELSE {"filled", "raise"})}

HarnessIdle == hpc = "idle" /\ call = NoneD /\ ret = NoOutcome

\* process_prompt once the context is created (lines 182-189), on an engine
\* as __init__ leaves it
Init ==
    /\ HarnessIdle
    /\ \E symbol \in PromptSymbols, dry_run \in BOOLEAN, amount \in PromptAmounts :
          /\ prompt_args = [prompt |-> "trade", symbol |-> symbol,
                            dry_run |-> dry_run, amount |-> amount]
          /\ context = [prompt |-> "trade", symbol |-> symbol,
                        dry_run |-> dry_run, amount |-> amount,
                        start_time |-> Now, tool_results |-> EmptyD]
    /\ pc = "start"
    /\ turn_count = 0
    /\ made_tool_calls = FALSE
    /\ assistant_message = NoneD
    /\ requests = <<>>
    /\ trade_runs = <<>>
    /\ returned = NoneD
    /\ engine = [tools |-> {}, tool_specs |-> <<>>]

\* lines 191-224: the tool specifications are generated unless the engine
\* has them already; without any, the error object is returned at once
ValidateToolSpecs ==
    /\ pc = "start"
    /\ \E catalog \in Catalogs :
       \E tool_specs \in {IF engine.tool_specs = <<>>
                          THEN GenerateToolSpecs(catalog)
                          ELSE engine.tool_specs[1]} :
          /\ engine' = [engine EXCEPT !.tool_specs = <<tool_specs>>]
          /\ IF ValidSpecs(tool_specs)
             THEN pc' = "loop" /\ UNCHANGED returned
             ELSE /\ pc' = "done"
                  /\ returned' = ErrorObject(prompt_args.symbol,
                                             "Failed to initialize tools",
                                             "No tool specifications were generated")
    /\ UNCHANGED <<prompt_args, turn_count, made_tool_calls, assistant_message,
                   context, requests, trade_runs, call, ret, hpc>>

\* the message of the exception a completion request raises
TransportError == "Connection error."

\* a completion request of the turn loop (lines 238-244) as the history
\* keeps it: the turn, how it was answered ("tool_calls", "no_tool_calls",
\* "raise") and, for a request that raised, the tool results recorded by then
TurnRequest(turn, answer, ctx) ==
    [kind |-> "turn", turn |-> turn, answer |-> answer,
     tool_results |-> IF answer = "raise" THEN ctx["tool_results"] ELSE EmptyD]

\* the completion request fails without stopping the loop
TurnTransportFailureContinues ==
    /\ pc = "loop"
    /\ LoopGuard(turn_count, max_turns)
    /\ turn_count' = turn_count + 1
    /\ requests' = Append(requests, TurnRequest(turn_count + 1, "raise", context))
    /\ context' = Put(context, "error", TransportError)
    /\ UNCHANGED <<pc, prompt_args, made_tool_calls, assistant_message, trade_runs,
                   returned, call, ret, hpc, engine>>

\* a turn in which the model requests tool calls (lines 227-283)
TurnToolCalls ==
    /\ pc = "loop"
    /\ LoopGuard(turn_count, max_turns)
    /\ turn_count' = turn_count + 1
    /\ requests' = Append(requests, TurnRequest(turn_count + 1, "tool_calls", context))
    /\ \E content \in Contents, tool_calls \in ToolCallLists, backend \in Backends :
          /\ assistant_message' = Message(content, tool_calls)
          /\ context' = ExecuteToolCalls(tool_calls, 1, context, backend)
          /\ engine' = [engine EXCEPT !.tools = LoadAll(@, tool_calls)]
    /\ made_tool_calls' = TRUE
    /\ UNCHANGED <<pc, prompt_args, trade_runs, returned, call, ret, hpc>>

\* a turn in which the model requests no tool call (lines 227-268, 284-301)
TurnNoToolCalls ==
    /\ pc = "loop"
    /\ LoopGuard(turn_count, max_turns)
    /\ turn_count' = turn_count + 1
    /\ requests' = Append(requests, TurnRequest(turn_count + 1, "no_tool_calls", context))
    /\ \E content \in Contents :
          /\ assistant_message' = Message(content, <<>>)
          /\ pc' = IF \/ turn_count' = 1 /\ TruthyStr(content)
                      \/ made_tool_calls /\ TruthyStr(content)
                      \/ ~TruthyStr(content)
                   THEN "after_loop" ELSE "loop"
    /\ UNCHANGED <<prompt_args, made_tool_calls, context, trade_runs, returned,
                   call, ret, hpc, engine>>

\* a turn whose completion request raises (lines 303-306)
TurnTransportFailure ==
    /\ pc = "loop"
    /\ LoopGuard(turn_count, max_turns)
    /\ turn_count' = turn_count + 1
    /\ requests' = Append(requests, TurnRequest(turn_count + 1, "raise", context))
    /\ context' = Put(context, "error", TransportError)
    /\ pc' = "after_loop"
    /\ UNCHANGED <<prompt_args, made_tool_calls, assistant_message, trade_runs,
                   returned, call, ret, hpc, engine>>

\* the while condition fails: the turn budget is spent
LoopExhausted ==
    /\ pc = "loop"
    /\ ~LoopGuard(turn_count, max_turns)
    /\ pc' = "after_loop"
    /\ UNCHANGED <<prompt_args, turn_count, made_tool_calls, assistant_message,
                   context, requests, trade_runs, returned, call, ret, hpc, engine>>

\* the assistant's text is never copied to the context
WithoutMessage(ctx, message) == ctx

\* lines 311-312: the assistant's text, when there is one, becomes the
\* context's message
WithMessage(ctx, message) ==
    IF ~IsNone(message) /\ TruthyStr(message.content)
    THEN Put(ctx, "message", message.content)
    ELSE ctx

\* lines 309-313: no tool call was made, the context is returned as it is
ReturnAnswerOnly ==
    /\ pc = "after_loop"
    /\ ~made_tool_calls
    /\ context' = WithMessage(context, assistant_message)
    /\ returned' = context'
    /\ pc' = "done"
    /\ UNCHANGED <<prompt_args, turn_count, made_tool_calls, assistant_message,
                   requests, trade_runs, call, ret, hpc, engine>>

\* trade_tool.run(**trading_args) of lines 388-429 and what it leaves in
\* the context: the result under tool_results, or trade_error when it raises
FallbackRun(ctx, trading_args, w) ==
    Bind(Outcome(Run(trading_args["symbol"], trading_args["direction"],
                     trading_args["amount"],
                     Get(trading_args, "market_data", NoneD),
                     Get(trading_args, "sentiment_data", NoneD),
                     trading_args["dry_run"], w)),
         LAMBDA o :
            [run |-> [args |-> trading_args, outcome |-> o],
             context |->
                IF o.kind = "return"
                THEN [ctx EXCEPT !["tool_results"] =
                                     Put(@, "TradingExecutionTool_run", o.val)]
                ELSE Put(ctx, "trade_error", o.val)])

\* trading_args with the symbol, amount and dry_run read back from the
\* context and the market data the tools left there
TradingArgsFromResults(ctx, symbol, direction, amount, dry_run) ==
    LET market_data == ResultWith(ctx, "MarketDataTool_run", "current_price")
        sentiment_data == ResultWith(ctx, "TwitterSentimentTool_run", "average_sentiment")
        base == [symbol |-> IF IsNone(market_data) THEN ctx["symbol"]
                            ELSE market_data["symbol"],
                 direction |-> direction,
                 amount |-> ctx["amount"], dry_run |-> ctx["dry_run"]]
        with_market == IF IsNone(market_data) THEN base
                       ELSE Put(base, "market_data", market_data)
    IN  IF IsNone(sentiment_data) THEN with_market
        ELSE Put(with_market, "sentiment_data", sentiment_data)

\* trading_args of lines 396-417
TradingArgs(ctx, symbol, direction, amount, dry_run) ==
    LET base == [symbol |-> symbol, direction |-> direction,
                 amount |-> amount, dry_run |-> dry_run]
        market_data == ResultWith(ctx, "MarketDataTool_run", "current_price")
        sentiment_data == ResultWith(ctx, "TwitterSentimentTool_run", "average_sentiment")
        with_market == IF IsNone(market_data) THEN base
                       ELSE Put(base, "market_data", market_data)
    IN  IF IsNone(sentiment_data) THEN with_market
        ELSE Put(with_market, "sentiment_data", sentiment_data)

\* the execution step placed inside the turn loop: the loop goes on after it
FallbackInsideLoop ==
    /\ pc = "after_loop"
    /\ made_tool_calls
    /\ FallbackGuard(assistant_message, made_tool_calls)
    /\ \E text \in RecommendationTexts, w \in FallbackWorlds(prompt_args.dry_run) :
          /\ requests' = Append(requests, [kind |-> "recommendation",
                                            answer |-> "text", content |-> text])
          /\ \E done \in {FallbackRun(context,
                                      TradingArgs(context, prompt_args.symbol,
                                                  ParseRecommendation(text),
                                                  prompt_args.amount,
                                                  prompt_args.dry_run), w)} :
                /\ context' = done.context
                /\ trade_runs' = Append(trade_runs, done.run)
    /\ pc' = IF LoopGuard(turn_count, max_turns) THEN "loop" ELSE "finish"
    /\ UNCHANGED <<prompt_args, turn_count, made_tool_calls, assistant_message,
                   returned, call, ret, hpc, engine>>

\* lines 317-432 when the condition of line 317 holds and no execution
\* result is recorded yet: the recommendation is requested and, unless that
\* request raises, TradingExecutionTool.run is invoked
Fallback ==
    /\ pc = "after_loop"
    /\ made_tool_calls
    /\ FallbackGuard(assistant_message, made_tool_calls)
    /\ ~TradingToolUsed(context)
    /\ \/ /\ requests' = Append(requests, [kind |-> "recommendation",
                                            answer |-> "raise", content |-> ""])
          /\ UNCHANGED <<context, trade_runs>>
       \/ \E text \in RecommendationTexts, w \in FallbackWorlds(prompt_args.dry_run) :
             /\ requests' = Append(requests, [kind |-> "recommendation",
                                               answer |-> "text", content |-> text])
             /\ \E done \in {FallbackRun(context,
                                         TradingArgs(context, prompt_args.symbol,
                                                     ParseRecommendation(text),
                                                     prompt_args.amount,
                                                     prompt_args.dry_run), w)} :
                   /\ context' = done.context
                   /\ trade_runs' = Append(trade_runs, done.run)
    /\ pc' = "finish"
    /\ UNCHANGED <<prompt_args, turn_count, made_tool_calls, assistant_message,
                   returned, call, ret, hpc, engine>>

\* lines 317-432 when the condition of line 317 fails, or an execution
\* result is already recorded: nothing is done
SkipFallback ==
    /\ pc = "after_loop"
    /\ made_tool_calls
    /\ ~(FallbackGuard(assistant_message, made_tool_calls) /\ ~TradingToolUsed(context))
    /\ pc' = "finish"
    /\ UNCHANGED <<prompt_args, turn_count, made_tool_calls, assistant_message,
                   context, requests, trade_runs, returned, call, ret, hpc, engine>>

\* lines 434-443: the final message, the elapsed time, the return
Finish ==
    /\ pc = "finish"
    /\ context' =
          Put(IF ~IsNone(assistant_message)
                 /\ TruthyStr(assistant_message.content)
                 /\ "message" \notin DOMAIN context
              THEN Put(context, "message", assistant_message.content)
              ELSE context,
              "elapsed_time", "elapsed")
    /\ returned' = context'
    /\ pc' = "done"
    /\ UNCHANGED <<prompt_args, turn_count, made_tool_calls, assistant_message,
                   requests, trade_runs, call, ret, hpc, engine>>

Next ==
    \/ ValidateToolSpecs
    \/ TurnToolCalls
    \/ TurnNoToolCalls
    \/ TurnTransportFailure
    \/ LoopExhausted
    \/ ReturnAnswerOnly
    \/ Fallback
    \/ SkipFallback
    \/ Finish

Spec == Init /\ [][Next]_vars

-----------------------------------------------------------------------------
(* Claims about process_prompt, checked under Spec *)

\* the tool-constrained completion requests made inside the turn loop
TurnRequests == SelectSeq(requests, LAMBDA r : r.kind = "turn")

\* process_prompt has returned
Returned == pc = "done"

\* C1: in every run in which the model requested at least one tool call
\* (the dispatcher never invokes TradingExecutionTool during the loop),
\* TradingExecutionTool.run has been invoked by the time process_prompt
\* returns, however the loop ended.
C1_GuaranteedExecution ==
    Returned /\ made_tool_calls => trade_runs # <<>>

\* C2: the turn counter never exceeds max_turns, and no more than max_turns
\* completion requests are made inside the turn loop.
C2_TurnBound ==
    /\ turn_count <= max_turns
    /\ Len(TurnRequests) = turn_count

\* a run that spent the whole budget: tool calls on every one of the turns
C2_Witness ==
    /\ Returned
    /\ turn_count = max_turns
    /\ Len(TurnRequests) = max_turns
    /\ ~IsNone(assistant_message) /\ assistant_message.tool_calls # <<>>

-----------------------------------------------------------------------------
(* More claims about TradingExecutionTool, checked under SpecExec *)

\* |a - b|
Dist(a, b) == IF a >= b THEN a - b ELSE b - a

\* the call under test has returned or raised
CallReturned == hpc = "returned" /\ call.op \in {"run", "execute_trade"}

\* the position of the first event named `name` in the log (0 if none)
FirstEvent(log, name) ==
    IF \E i \in 1..Len(log) : log[i].ev = name
    THEN CHOOSE i \in 1..Len(log) :
            log[i].ev = name /\ \A j \in 1..(i - 1) : log[j].ev # name
    ELSE 0

\* the live queries made by the price lookup of execute_trade, which
\* precedes the call of _place_order
SizingQueries ==
    Events(SubSeq(ret.log, 1, FirstEvent(ret.log, "_place_order")), "all_mids")

\* C11: for every LONG or SHORT trade the size handed to _place_order is
\* amount / price rounded to 4 decimal places (the multiple of 0.0001
\* nearest to the quotient), where price is the price the lookup of
\* execute_trade resolved: the live quote when the first query answers with
\* one for the symbol.  No minimum-size adjustment is applied to it.
C11_Sizing ==
    CallReturned /\ Placements # <<>> =>
        /\ Len(Placements) = 1
        /\ Placements[1].arg.price > 0
        /\ 2 * Dist(Placements[1].arg.size * Placements[1].arg.price,
                    call.amount * 10000) <= Placements[1].arg.price
        /\ \/ SizingQueries = <<>>
           \/ Raises(SizingQueries[1].arg)
           \/ StripPerp(Get(TradeDecision, "symbol", "BTC"))
                 \notin DOMAIN SizingQueries[1].arg
           \/ Placements[1].arg.price =
                 SizingQueries[1].arg[StripPerp(Get(TradeDecision, "symbol", "BTC"))]

\* the example of the claim: 100 dollars at 3000 give 0.0333, in live mode,
\* where 0.0333 x 3000 is well above the floor
C11_Witness ==
    /\ CallReturned /\ ~call.dry_run
    /\ Len(Placements) = 1
    /\ call.amount = 10000
    /\ Placements[1].arg.price = 300000
    /\ Placements[1].arg.size = 333

\* the size execute_trade handed to _place_order
HandedSize == Placements[1].arg.size

\* C12: in live order placement, whenever size x current price is below the
\* floor of 10.5 dollars the size is adjusted upward so that the order
\* submitted to the exchange has a notional value (submitted size x price)
\* of at least the 10 dollar minimum, for every price; the size is left
\* unchanged when the notional already meets the floor.
C12_MinimumNotionalFloor ==
    CallReturned /\ OrderCalls # <<>> =>
        LET order == OrderCalls[1].arg
        IN  /\ ~NotionalBelow(order.sz, order.px, 10000000)
            /\ order.sz >= HandedSize
            /\ ~NotionalBelow(HandedSize, order.px, 10500000) =>
                 order.sz = HandedSize

\* the status of what _place_order handed back to execute_trade
PlacementReturns == Events(ret.log, "_place_order returned")

ResultFields == {"status", "price", "size", "amount", "timestamp"}

\* C13: every result returned by run and execute_trade, on every path
\* (executed, not_executed, failed for a sub-minimum amount, failed order),
\* contains the fields status, price, size, amount and timestamp.
C13_ResultNormalization ==
    CallReturned /\ ret.kind = "return" => ResultFields \subseteq DOMAIN ret.val

\* C14: every result with status failed carries an error field, and the
\* status is executed exactly when _place_order reported status ok.
C14_FailedCarriesError ==
    CallReturned /\ ret.kind = "return" =>
        /\ Status("failed") => "error" \in DOMAIN ret.val
        /\ Status("executed") <=>
              (PlacementReturns # <<>> /\ PlacementReturns[1].arg = "ok")
        /\ Status("failed") \/ Status("executed") \/ Status("not_executed")

\* a live order the exchange call failed on, reported as failed with the error
C14_Witness ==
    /\ CallReturned /\ ~call.dry_run
    /\ PlacementReturns # <<>> /\ PlacementReturns[1].arg = "error"
    /\ Status("failed") /\ ret.val["error"] = "exchange raised"

\* C15 (run and execute_trade): whatever the price service and the exchange
\* do, including a quoted price of zero and an exchange call that throws,
\* the call never raises: it returns a structured result, with status failed
\* and an error field when an error was thrown on the way.
C15_NoEscapingExceptions ==
    CallReturned =>
        /\ ret.kind = "return"
        /\ "status" \in DOMAIN ret.val
        /\ OrderCalls # <<>> =>
              (Status("failed") /\ "error" \in DOMAIN ret.val) \/ Status("executed")

Directions == {"LONG", "SHORT", "NEUTRAL"}

\* the direction given to the call is none of LONG, SHORT, NEUTRAL (run
\* upper-cases its argument first)
InvalidDirection ==
    \/ /\ call.op = "run"
       /\ TruthyStr(call.direction)
       /\ Upper(call.direction) \notin Directions
    \/ /\ call.op = "execute_trade"
       /\ Get(call.decision, "decision", "NEUTRAL") \notin Directions

\* C16: a direction that is none of LONG, SHORT, NEUTRAL gives a result with
\* a failed/error status, and no order, buy or sell, is placed.
C16_InvalidDirection ==
    CallReturned /\ InvalidDirection =>
        /\ Status("failed")
        /\ Placements = <<>>
        /\ OrderCalls = <<>>

\* C17: in live mode with no private key configured, placing a LONG or SHORT
\* order degrades to a simulated success (status executed) rather than an
\* error, and _init_exchange does not raise.
C17_MissingCredential ==
    /\ CallReturned
    /\ ~call.dry_run
    /\ call.self.key = "none"
    /\ Placements # <<>>
    /\ TradeDirection \in {"LONG", "SHORT"}
    => /\ Status("executed")
       /\ "error" \notin DOMAIN ret.val


-----------------------------------------------------------------------------
(* More claims about process_prompt, checked under Spec *)

\* the completion request of the last turn raised
TransportFailed ==
    /\ TurnRequests # <<>>
    /\ TurnRequests[Len(TurnRequests)].answer = "raise"

\* the tool results recorded before the request that raised
RecordedBeforeFailure == TurnRequests[Len(TurnRequests)].tool_results

\* C18: when a completion request of the turn loop raises, no later turn
\* is requested; process_prompt returns a Context (it does not raise) whose
\* error is the exception's message, which still has the symbol and every
\* tool result recorded on the earlier turns.
C18_TransportFailure ==
    /\ \A i \in 1..Len(TurnRequests) :
          TurnRequests[i].answer = "raise" => i = Len(TurnRequests)
    /\ (Returned /\ TransportFailed) =>
          /\ turn_count = TurnRequests[Len(TurnRequests)].turn
          /\ "error" \in DOMAIN returned
          /\ returned["error"] = TransportError
          /\ "symbol" \in DOMAIN returned
          /\ returned["symbol"] = prompt_args.symbol
          /\ \A k \in DOMAIN RecordedBeforeFailure :
                /\ k \in DOMAIN returned["tool_results"]
                /\ returned["tool_results"][k] = RecordedBeforeFailure[k]

\* a request that raised on a later turn, after a tool result was recorded
C18_Witness ==
    /\ Returned
    /\ TransportFailed
    /\ turn_count > 1
    /\ DOMAIN RecordedBeforeFailure # {}
    /\ returned["error"] = TransportError
    /\ DOMAIN returned["tool_results"] = DOMAIN RecordedBeforeFailure


\* C19: every Context process_prompt returns after the turn loop has run
\* contains elapsed_time.
C19_ElapsedTime ==
    (Returned /\ turn_count >= 1) => "elapsed_time" \in DOMAIN returned


\* the first response of the model had text and no tool calls
AnswerOnly ==
    /\ TurnRequests # <<>>
    /\ TurnRequests[1].answer = "no_tool_calls"
    /\ TruthyStr(assistant_message.content)

\* C20: when the first response has text and no tool calls, that request is
\* the only one process_prompt makes, no tool and no trade execution is
\* invoked, and the Context returned has that text as its message and no
\* tool result.
C20_AnswerOnly ==
    AnswerOnly =>
        /\ Len(requests) = 1
        /\ ~made_tool_calls
        /\ trade_runs = <<>>
        /\ DOMAIN context["tool_results"] = {}
        /\ pc \in {"after_loop", "done"}
        /\ Returned =>
              /\ "message" \in DOMAIN returned
              /\ returned["message"] = assistant_message.content
              /\ DOMAIN returned["tool_results"] = {}

\* process_prompt returned after a first response that was text only
C20_Witness ==
    /\ Returned
    /\ AnswerOnly
    /\ returned["message"] = "Here is my analysis."


-----------------------------------------------------------------------------
(* The turn loop of process_prompt, one tool call at a time, checked under  *)
(* SpecDispatch: every iteration of the for loop of lines 275-283 is a step *)

\* turns followed by the harness
MaxDispatchTurns == 2

\* the tool calls a model reply is made of
DispatchCalls ==
    {ToolCall("MarketDataTool_run", EmptyD),
     ToolCall("MarketDataTool_run", [symbol |-> "btc"]),
     ToolCall("MarketDataTool_run", [symbol |-> "None"]),
     ToolCall("TwitterSentimentTool_run", EmptyD),
     ToolCall("TwitterSentimentTool_run", [timeframe |-> "1h"]),
     ToolCall("TradingExecutionTool_run", [direction |-> "LONG"]),
     ToolCall("TradingExecutionTool_run", BadJson),
     ToolCall("MarketDataTool_fetch", EmptyD),
     ToolCall("MarketDataTool_name", EmptyD),
     ToolCall("analyze", EmptyD),
     ToolCall("analyze", BadJson),
     ToolCall("MarketDataTool_run", BadJson)}

\* the replies: one tool call, or two of them
DispatchCallLists ==
    {<<a>> : a \in DispatchCalls}
    \cup {<<ToolCall("TwitterSentimentTool_run", EmptyD),
             ToolCall("MarketDataTool_run", EmptyD)>>,
           <<ToolCall("MarketDataTool_run", EmptyD),
             ToolCall("TwitterSentimentTool_run", EmptyD)>>,
           <<ToolCall("MarketDataTool_run", [symbol |-> "btc"]),
             ToolCall("MarketDataTool_run", EmptyD)>>,
           <<ToolCall("analyze", EmptyD),
             ToolCall("MarketDataTool_run", EmptyD)>>,
           <<ToolCall("MarketDataTool_run", [symbol |-> "None"]),
             ToolCall("TwitterSentimentTool_run", EmptyD)>>,
           <<ToolCall("MarketDataTool_run", BadJson),
             ToolCall("MarketDataTool_fetch", EmptyD)>>}

\* tool_call.id: the calls of a reply numbered within their turn
WithIds(tool_calls, turn) ==
    [i \in 1..Len(tool_calls) |->
        [name |-> tool_calls[i].name, args |-> tool_calls[i].args,
         id |-> 10 * turn + i]]

\* lines 255-268: the assistant message appended to the transcript
AssistantEntry(tool_calls) ==
    [role |-> "assistant",
     tool_call_ids |-> [i \in 1..Len(tool_calls) |-> tool_calls[i].id]]

\* the tool message is appended under the id of the reply's first call
ToolEntryFirstId(tool_call, tool_result) ==
    [role |-> "tool", tool_call_id |-> 10 * (tool_call.id \div 10) + 1,
     content |-> tool_result]

\* lines 279-283: the tool message appended after a call
ToolEntry(tool_call, tool_result) ==
    [role |-> "tool", tool_call_id |-> tool_call.id, content |-> tool_result]

\* lines 182-224: the context, the specifications and the transcript at the
\* start of the loop
InitDispatch ==
    /\ \E symbol \in PromptSymbols, dry_run \in BOOLEAN, amount \in PromptAmounts :
          /\ prompt_args = [prompt |-> "trade", symbol |-> symbol,
                            dry_run |-> dry_run, amount |-> amount]
          /\ context = [prompt |-> "trade", symbol |-> symbol,
                        dry_run |-> dry_run, amount |-> amount,
                        start_time |-> Now, tool_results |-> EmptyD]
    /\ pc = "loop"
    /\ turn_count = 0
    /\ made_tool_calls = FALSE
    /\ assistant_message = NoneD
    /\ requests = <<>>
    /\ trade_runs = <<>>
    /\ returned = NoneD
    /\ engine = [tools |-> {}, tool_specs |-> <<GenerateToolSpecs(AVAILABLE_TOOLS)>>]
    /\ hpc = "request"
    /\ call = [op |-> "dispatch", tool_calls |-> <<>>, i |-> 1, backend |-> "ok"]
    /\ ret = [kind |-> "dispatch",
              messages |-> <<[role |-> "system"], [role |-> "user"]>>,
              dispatched |-> <<>>]

\* lines 227-273: a completion request answered with tool calls; the
\* transcript sent is kept with the request
DispatchRequest ==
    /\ hpc = "request"
    /\ LoopGuard(turn_count, max_turns)
    /\ turn_count < MaxDispatchTurns
    /\ turn_count' = turn_count + 1
    /\ requests' = Append(requests, [kind |-> "turn", turn |-> turn_count + 1,
                                     answer |-> "tool_calls",
                                     messages |-> ret.messages])
    /\ \E tool_calls \in DispatchCallLists, backend \in Backends :
       \E numbered \in {WithIds(tool_calls, turn_count + 1)} :
          /\ assistant_message' = Message("None", numbered)
          /\ call' = [op |-> "dispatch", tool_calls |-> numbered, i |-> 1,
                      backend |-> backend]
          /\ ret' = [ret EXCEPT !.messages = Append(@, AssistantEntry(numbered))]
    /\ made_tool_calls' = TRUE
    /\ hpc' = "for"
    /\ UNCHANGED <<pc, prompt_args, context, trade_runs, returned, engine>>

\* lines 275-283: one iteration of the for loop
DispatchCall ==
    /\ hpc = "for"
    /\ call.i <= Len(call.tool_calls)
    /\ \E tool_call \in {call.tool_calls[call.i]} :
       \E done \in {ExecuteToolCall(tool_call, context, call.backend)} :
          /\ done.kind = "return"
          /\ context' = done.context
          /\ ret' = [ret EXCEPT
                       !.messages = Append(@, ToolEntry(tool_call, done.result)),
                       !.dispatched = Append(@, [tool_call |-> tool_call,
                                                 result |-> done.result,
                                                 called |-> done.called,
                                                 before |-> context,
                                                 after |-> done.context])]
          /\ engine' = [engine EXCEPT !.tools = @ \cup Loads(tool_call)]
    /\ call' = [call EXCEPT !.i = @ + 1]
    /\ hpc' = IF call.i = Len(call.tool_calls) THEN "request" ELSE "for"
    /\ UNCHANGED <<pc, prompt_args, turn_count, made_tool_calls, assistant_message,
                   requests, trade_runs, returned>>

\* lines 227-268, 284-301: a completion request answered with text only,
\* which ends the loop
DispatchLastRequest ==
    /\ hpc = "request"
    /\ LoopGuard(turn_count, max_turns)
    /\ turn_count' = turn_count + 1
    /\ requests' = Append(requests, [kind |-> "turn", turn |-> turn_count + 1,
                                     answer |-> "no_tool_calls",
                                     messages |-> ret.messages])
    /\ assistant_message' = Message("Here is my analysis.", <<>>)
    /\ ret' = [ret EXCEPT !.messages = Append(@, AssistantEntry(<<>>))]
    /\ pc' = "after_loop"
    /\ hpc' = "done"
    /\ UNCHANGED <<prompt_args, made_tool_calls, context, trade_runs, returned, call, engine>>

NextDispatch == DispatchRequest \/ DispatchCall \/ DispatchLastRequest

SpecDispatch == InitDispatch /\ [][NextDispatch]_vars

\* what was dispatched so far, in order
Dispatched == ret.dispatched


\* the position of the last assistant message of a transcript
LastAssistant(messages) ==
    CHOOSE p \in 1..Len(messages) :
        /\ messages[p].role = "assistant"
        /\ \A q \in (p + 1)..Len(messages) : messages[q].role # "assistant"

\* the tool messages of a transcript, in order
ToolEntries(messages) == SelectSeq(messages, LAMBDA m : m.role = "tool")

\* the transcript ends with the assistant message at position p followed by
\* one tool message for each of the first n calls it requested, in order
AnsweredInOrder(messages, p, n) ==
    /\ Len(messages) = p + n
    /\ n <= Len(messages[p].tool_call_ids)
    /\ \A j \in 1..n :
          /\ messages[p + j].role = "tool"
          /\ messages[p + j].tool_call_id = messages[p].tool_call_ids[j]

\* C21: the tool calls of a turn are executed one at a time in the order the
\* model listed them, each followed by exactly one tool message with its id
\* before the next call starts; the transcript sent on the next turn holds,
\* after the assistant message, one tool message per requested call, in
\* request order.
C21_SequentialDispatch ==
    /\ Len(ToolEntries(ret.messages)) = Len(Dispatched)
    /\ \A k \in 1..Len(Dispatched) :
          /\ ToolEntries(ret.messages)[k].tool_call_id = Dispatched[k].tool_call.id
          /\ ToolEntries(ret.messages)[k].content = Dispatched[k].result
    /\ hpc = "for" =>
          /\ AnsweredInOrder(ret.messages, LastAssistant(ret.messages), call.i - 1)
          /\ \A j \in 1..(call.i - 1) :
                Dispatched[Len(Dispatched) - (call.i - 1) + j].tool_call
                    = call.tool_calls[j]
    /\ \A k \in 2..Len(requests) :
          AnsweredInOrder(requests[k].messages, LastAssistant(requests[k].messages),
                          Len(requests[k].messages[LastAssistant(requests[k].messages)]
                                  .tool_call_ids))

\* a request whose transcript ends with the two tool messages of a reply
\* that asked for two calls, the first of them failed
C21_Witness ==
    /\ Len(requests) >= 2
    /\ Len(requests[2].messages) = 5
    /\ requests[2].messages[3].tool_call_ids = <<11, 12>>
    /\ requests[2].messages[4].tool_call_id = 11
    /\ "error" \in DOMAIN requests[2].messages[4].content
    /\ requests[2].messages[5].tool_call_id = 12
    /\ "current_price" \in DOMAIN requests[2].messages[5].content


\* the tool method invoked for a dispatched call raised
Raised(d) ==
    /\ d.called # <<>>
    /\ MethodRaises(d.called[1].tool, d.called[1].args)

\* C22: _execute_tool_call never raises; when the tool method raises, or
\* the argument payload is not valid JSON, it returns {error: <message>},
\* and the loop goes on with a tool message carrying that result.
C22_ToolExceptionsContained ==
    /\ hpc = "for" =>
          ExecuteToolCall(call.tool_calls[call.i], context, call.backend).kind
              = "return"
    /\ \A k \in 1..Len(Dispatched) :
          /\ Raised(Dispatched[k]) =>
                Dispatched[k].result = ErrorResult("AttributeError")
          /\ Dispatched[k].tool_call.args = BadJson =>
                Dispatched[k].result = ErrorResult("JSONDecodeError")
          /\ (Raised(Dispatched[k]) \/ Dispatched[k].tool_call.args = BadJson) =>
                /\ ToolEntries(ret.messages)[k].tool_call_id
                       = Dispatched[k].tool_call.id
                /\ DOMAIN ToolEntries(ret.messages)[k].content = {"error"}

\* a tool method raised on the first call of a reply, a payload was not
\* JSON, and the calls after them were dispatched all the same
C22_Witness ==
    /\ Len(Dispatched) >= 4
    /\ Raised(Dispatched[1])
    /\ Dispatched[1].result = ErrorResult("AttributeError")
    /\ "average_sentiment" \in DOMAIN Dispatched[2].result
    /\ Dispatched[3].tool_call.args = BadJson
    /\ Dispatched[3].result = ErrorResult("JSONDecodeError")


\* the context, tool_results included, is as it was before the call, and
\* no tool method was invoked
NothingDone(d) == d.called = <<>> /\ d.after = d.before

\* C23: a function name without the separator yields the error 'Invalid
\* function name format', an unknown capability 'Tool not found', an unknown
\* method of a known capability 'Method not found'; in each case no tool
\* method is executed and the context is left unchanged.
C23_ResolutionErrors ==
    \A k \in 1..Len(Dispatched) :
        LET d == Dispatched[k]
            name == SplitName(d.tool_call.name)
        IN  /\ name = <<>> =>
                  /\ d.result = ErrorResult("Invalid function name format")
                  /\ NothingDone(d)
            /\ (name # <<>> /\ name[1] \notin AVAILABLE_TOOLS) =>
                  /\ d.result = ErrorResult("Tool not found")
                  /\ NothingDone(d)
            /\ (name # <<>> /\ name[1] \in AVAILABLE_TOOLS /\ name[2] # "run") =>
                  /\ d.result = ErrorResult("Method not found")
                  /\ NothingDone(d)


\* the call's result was returned by the tool method and recorded
Stored(d) == d.called # <<>> /\ ~Raised(d)

\* the positions of the recorded results that contain the key
Writers(key) ==
    {k \in 1..Len(Dispatched) :
        Stored(Dispatched[k]) /\ key \in DOMAIN Dispatched[k].result}

\* the keys process_prompt creates the context with
InitialKeys == {"prompt", "symbol", "dry_run", "amount", "start_time", "tool_results"}

\* C24: every top-level key of the context holds the value of its first
\* writer, the initial context or the earliest recorded tool result that
\* contains the key; prompt, symbol, dry_run and amount stay as they were
\* passed to process_prompt.
C24_FirstWriteWins ==
    /\ \A key \in {"prompt", "symbol", "dry_run", "amount"} :
          key \in DOMAIN context /\ context[key] = prompt_args[key]
    /\ "start_time" \in DOMAIN context /\ context["start_time"] = Now
    /\ \A key \in DOMAIN context \ InitialKeys :
          /\ Writers(key) # {}
          /\ \E first \in Writers(key) :
                /\ \A k \in Writers(key) : first <= k
                /\ context[key] = Dispatched[first].result[key]
    /\ \A k \in 1..Len(Dispatched) :
          Stored(Dispatched[k]) =>
              DOMAIN Dispatched[k].result \subseteq DOMAIN context

\* two market readings were recorded, for BTC and then for the run's symbol:
\* the context keeps the run's symbol and the price of the first reading
C24_Witness ==
    /\ Len(Dispatched) >= 2
    /\ Stored(Dispatched[1]) /\ Stored(Dispatched[2])
    /\ Dispatched[1].result["symbol"] = "BTC"
    /\ context["symbol"] = "ETH"
    /\ "current_price" \in DOMAIN Dispatched[1].result
    /\ "current_price" \in DOMAIN Dispatched[2].result
    /\ Dispatched[2].result["current_price"] # Dispatched[1].result["current_price"]
    /\ context["current_price"] = Dispatched[1].result["current_price"]


\* the arguments _execute_tool_call may take from the context
WellKnown == {"symbol", "dry_run", "amount"}

\* C25: a method that accepts symbol, dry_run or amount is given the
\* context's value for each of them the model left out; what the model
\* supplied is passed as it is; a parameter the method does not accept is
\* never added.
C25_ContextAugmentation ==
    \A k \in 1..Len(Dispatched) :
        Dispatched[k].called # <<>> =>
            LET d == Dispatched[k]
                supplied == d.tool_call.args
                passed == d.called[1].args
                accepted == Parameters(d.called[1].tool)
            IN  /\ \A p \in DOMAIN supplied :
                      p \in DOMAIN passed /\ passed[p] = supplied[p]
                /\ \A p \in (WellKnown \cap accepted) \ DOMAIN supplied :
                      p \in DOMAIN passed /\ passed[p] = d.before[p]
                /\ DOMAIN passed \subseteq DOMAIN supplied \cup (WellKnown \cap accepted)

\* one method was given the symbol of the context, another the symbol the
\* model supplied, and neither was given dry_run or amount
C25_Witness ==
    /\ Len(Dispatched) >= 2
    /\ Dispatched[1].called # <<>> /\ Dispatched[2].called # <<>>
    /\ Dispatched[1].tool_call.args = [symbol |-> "btc"]
    /\ Dispatched[1].called[1].args = [symbol |-> "btc"]
    /\ Dispatched[2].tool_call.args = EmptyD
    /\ Dispatched[2].called[1].args = [symbol |-> "ETH"]
    /\ Dispatched[2].before["symbol"] = "ETH"


-----------------------------------------------------------------------------
(* Claims about the fallback step of process_prompt, checked under Spec *)

\* the recommendation requests made so far
Recommendations == SelectSeq(requests, LAMBDA r : r.kind = "recommendation")

\* the recommendation request of the fallback step was answered
Recommended ==
    /\ Recommendations # <<>>
    /\ Recommendations[1].answer = "text"

\* C26: in the fallback step the direction handed to TradingExecutionTool.run
\* is LONG when the recommendation mentions LONG, else SHORT when it
\* mentions SHORT, else NEUTRAL; once the recommendation request succeeded
\* the tool is run in all three cases and its result is stored under
\* tool_results['TradingExecutionTool_run'].
C26_FallbackRecommendation ==
    Recommended =>
        /\ Len(trade_runs) = 1
        /\ trade_runs[1].args["direction"] =
              (IF Mentions(Recommendations[1].content, "LONG") THEN "LONG"
               ELSE IF Mentions(Recommendations[1].content, "SHORT") THEN "SHORT"
               ELSE "NEUTRAL")
        /\ "TradingExecutionTool_run" \in DOMAIN context["tool_results"]


\* C27: when the generation of the tool specifications yields none,
\* process_prompt returns the error object (symbol, message, error 'No tool
\* specifications were generated', timestamp) without any completion
\* request, tool call or trade execution.
C27_EmptyCatalog ==
    (pc # "start" /\ engine.tool_specs = <<{}>>) =>
        /\ pc = "done"
        /\ returned = [symbol |-> prompt_args.symbol,
                       message |-> "Failed to initialize tools",
                       error |-> "No tool specifications were generated",
                       timestamp |-> Now]
        /\ requests = <<>>
        /\ trade_runs = <<>>
        /\ engine.tools = {}
        /\ context["tool_results"] = EmptyD
        /\ ~made_tool_calls

\* process_prompt returned the error object for an empty table of tools
C27_Witness ==
    /\ pc = "done"
    /\ engine.tool_specs = <<{}>>
    /\ returned["error"] = "No tool specifications were generated"
    /\ requests = <<>>


-----------------------------------------------------------------------------
(* Two runs of process_prompt on one engine, interleaved at every request   *)
(* and tool call, checked under SpecTwoRuns.  The locals of process_prompt  *)
(* (context, turn_count, made_tool_calls, assistant_message) are functions  *)
(* of the run; engine is shared.                                            *)

Runs == {1, 2}

\* tool-call turns of a run followed by the harness
MaxRunCalls == 2

\* the arguments of the two calls of process_prompt
RunArgs(run) ==
    IF run = 1
    THEN [prompt |-> "trade", symbol |-> "ETH", dry_run |-> TRUE, amount |-> 500]
    ELSE [prompt |-> "analyze", symbol |-> "BTC", dry_run |-> TRUE, amount |-> 10000]

\* the text of a run's last reply
RunText(run) == IF run = 1 THEN "Here is my analysis." ELSE "Analysis of BTC."

\* the tool calls of a reply (one call a reply)
RunCalls ==
    {ToolCall("MarketDataTool_run", EmptyD),
     ToolCall("TwitterSentimentTool_run", EmptyD),
     ToolCall("MarketDataTool_run", [symbol |-> "None"])}

\* one context for the whole engine: every run works on the first one
SharedContext(run, contexts) == contexts[1]

\* a run's local variable context
RunContext(run, contexts) == contexts[run]

\* lines 182-189
InitialContext(args) ==
    [prompt |-> args.prompt, symbol |-> args.symbol, dry_run |-> args.dry_run,
     amount |-> args.amount, start_time |-> Now, tool_results |-> EmptyD]

\* lines 308-443 on a run's locals: the context returned and the trade
\* execution made on the way, if any.  recommendation is the text of the
\* recommendation, or "raise" when that request fails
AfterLoop(ctx, args, message, made, recommendation, w) ==
    IF ~made THEN [context |-> WithMessage(ctx, message), runs |-> <<>>]
    ELSE LET fallback == /\ FallbackGuard(message, made)
                         /\ ~TradingToolUsed(ctx)
                         /\ recommendation # "raise"
             done == FallbackRun(ctx,
                                 TradingArgs(ctx, args.symbol,
                                             ParseRecommendation(recommendation),
                                             args.amount, args.dry_run), w)
             traded == IF fallback THEN done.context ELSE ctx
             final == IF ~IsNone(message) /\ TruthyStr(message.content)
                         /\ "message" \notin DOMAIN traded
                      THEN Put(traded, "message", message.content)
                      ELSE traded
         IN  [context |-> Put(final, "elapsed_time", "elapsed"),
              runs |-> IF fallback THEN <<done.run>> ELSE <<>>]

InitTwoRuns ==
    /\ hpc = "idle"
    /\ call = NoneD
    /\ ret = [run \in Runs |-> <<>>]
    /\ prompt_args = [run \in Runs |-> RunArgs(run)]
    /\ context = [run \in Runs |-> InitialContext(RunArgs(run))]
    /\ pc = [run \in Runs |-> "start"]
    /\ turn_count = [run \in Runs |-> 0]
    /\ made_tool_calls = [run \in Runs |-> FALSE]
    /\ assistant_message = [run \in Runs |-> NoneD]
    /\ returned = [run \in Runs |-> NoneD]
    /\ requests = <<>>
    /\ trade_runs = [run \in Runs |-> <<>>]
    /\ engine = [tools |-> {}, tool_specs |-> <<>>]

\* lines 191-224 of a run
RunValidate(run) ==
    /\ pc[run] = "start"
    /\ engine' = [engine EXCEPT !.tool_specs =
                     IF @ = <<>> THEN <<GenerateToolSpecs(AVAILABLE_TOOLS)>> ELSE @]
    /\ pc' = [pc EXCEPT ![run] = "loop"]
    /\ UNCHANGED <<prompt_args, turn_count, made_tool_calls, assistant_message,
                   context, requests, trade_runs, returned, call, ret, hpc>>

\* lines 227-283 of a run: a reply with one tool call, executed on the
\* run's context; ret[run] keeps the results the run recorded
RunToolCall(run) ==
    /\ pc[run] = "loop"
    /\ LoopGuard(turn_count[run], max_turns)
    /\ turn_count[run] < MaxRunCalls
    /\ turn_count' = [turn_count EXCEPT ![run] = @ + 1]
    /\ made_tool_calls' = [made_tool_calls EXCEPT ![run] = TRUE]
    /\ \E tool_call \in RunCalls, backend \in Backends :
       \E done \in {ExecuteToolCall(tool_call, RunContext(run, context), backend)} :
          /\ assistant_message' =
                [assistant_message EXCEPT ![run] = Message("None", <<tool_call>>)]
          /\ context' = [context EXCEPT ![run] = done.context]
          /\ ret' = [ret EXCEPT ![run] =
                        IF done.context = RunContext(run, context) THEN @
                        ELSE Append(@, done.result)]
          /\ engine' = [engine EXCEPT !.tools = @ \cup Loads(tool_call)]
    /\ UNCHANGED <<pc, prompt_args, requests, trade_runs, returned, call, hpc>>

\* lines 227-268, 284-301 of a run: a reply with text only ends the loop
RunAnswer(run) ==
    /\ pc[run] = "loop"
    /\ LoopGuard(turn_count[run], max_turns)
    /\ turn_count' = [turn_count EXCEPT ![run] = @ + 1]
    /\ assistant_message' =
          [assistant_message EXCEPT ![run] = Message(RunText(run), <<>>)]
    /\ pc' = [pc EXCEPT ![run] = "after_loop"]
    /\ UNCHANGED <<prompt_args, made_tool_calls, context, requests, trade_runs,
                   returned, call, ret, hpc, engine>>

\* lines 237-244, 303-306 of a run: the completion request raises
RunTransportFailure(run) ==
    /\ pc[run] = "loop"
    /\ LoopGuard(turn_count[run], max_turns)
    /\ turn_count' = [turn_count EXCEPT ![run] = @ + 1]
    /\ context' = [context EXCEPT
                     ![run] = Put(RunContext(run, context), "error", TransportError)]
    /\ pc' = [pc EXCEPT ![run] = "failed"]
    /\ UNCHANGED <<prompt_args, made_tool_calls, assistant_message, requests,
                   trade_runs, returned, call, ret, hpc, engine>>

\* lines 308-443 of a run: the fallback execution, the final message, the
\* return
RunReturn(run) ==
    /\ pc[run] \in {"after_loop", "failed"}
    /\ \E recommendation \in {"raise", "Go LONG.", "Stay out."},
          w \in {World(self, 0, <<QuotesA, QuotesA>>, "filled") : self \in FreshTools} :
       \E done \in {AfterLoop(RunContext(run, context), prompt_args[run],
                              assistant_message[run], made_tool_calls[run],
                              recommendation, w)} :
          /\ context' = [context EXCEPT ![run] = done.context]
          /\ returned' = [returned EXCEPT ![run] = done.context]
          /\ trade_runs' = [trade_runs EXCEPT ![run] = @ \o done.runs]
    /\ pc' = [pc EXCEPT ![run] = IF pc[run] = "failed" THEN "done_failed" ELSE "done"]
    /\ UNCHANGED <<prompt_args, turn_count, made_tool_calls, assistant_message,
                   requests, call, ret, hpc, engine>>

NextTwoRuns ==
    \E run \in Runs :
        \/ RunValidate(run)
        \/ RunToolCall(run)
        \/ RunAnswer(run)
        \/ RunTransportFailure(run)
        \/ RunReturn(run)

SpecTwoRuns == InitTwoRuns /\ [][NextTwoRuns]_vars


\* the results a run recorded itself: those of its tool calls and of its
\* trade execution
OwnResults(run) ==
    {ret[run][i] : i \in 1..Len(ret[run])}
    \cup {trade_runs[run][i].outcome.val : i \in 1..Len(trade_runs[run])}

\* the keys process_prompt itself writes after the loop
OrchestratorKeys == {"error", "message", "elapsed_time", "trade_error"}

\* C28: two runs on one engine, interleaved in any way, each work on their
\* own context: a run's context, and what it returns, holds the run's own
\* arguments and only tool results, convenience fields, error and message
\* the run recorded itself.
C28_ContextIsolation ==
    \A run \in Runs :
        LET ctx == context[run]
        IN  /\ \A key \in {"prompt", "symbol", "dry_run", "amount"} :
                  ctx[key] = RunArgs(run)[key]
            /\ \A key \in DOMAIN ctx["tool_results"] :
                  ctx["tool_results"][key] \in OwnResults(run)
            /\ \A key \in DOMAIN ctx \ (InitialKeys \cup OrchestratorKeys) :
                  \E result \in OwnResults(run) :
                      key \in DOMAIN result /\ result[key] = ctx[key]
            /\ "error" \in DOMAIN ctx => pc[run] \in {"failed", "done_failed"}
            /\ "message" \in DOMAIN ctx =>
                  \/ ctx["message"] = RunText(run)
                  \/ \E result \in OwnResults(run) :
                        "message" \in DOMAIN result
                        /\ result["message"] = ctx["message"]
            /\ ~IsNone(returned[run]) => returned[run] = ctx

\* both runs have returned: the first with its market reading, its trade
\* and its message, the second, whose last request failed, with its own
\* reading and the error
C28_Witness ==
    /\ pc[1] = "done" /\ pc[2] = "done_failed"
    /\ "MarketDataTool_run" \in DOMAIN returned[1]["tool_results"]
    /\ returned[1]["tool_results"]["MarketDataTool_run"]["symbol"] = "ETH"
    /\ "TradingExecutionTool_run" \in DOMAIN returned[1]["tool_results"]
    /\ "message" \in DOMAIN returned[1]
    /\ returned[1]["message"] = RunText(1)
    /\ "error" \notin DOMAIN returned[1]
    /\ "MarketDataTool_run" \in DOMAIN returned[2]["tool_results"]
    /\ returned[2]["tool_results"]["MarketDataTool_run"]["symbol"] = "BTC"
    /\ "current_price" \in DOMAIN returned[2]
    /\ returned[2]["error"] = TransportError
    /\ engine.tools = {"MarketDataTool"}


-----------------------------------------------------------------------------
(* More claims about process_prompt, checked under Spec *)

\* C29: when a run in which tool calls occurred ends with a text-only reply
\* of the assistant, the message of the returned Context is that text,
\* whatever the tools returned earlier in the run.
C29_FinalMessage ==
    (/\ Returned
     /\ made_tool_calls
     /\ assistant_message.tool_calls = <<>>
     /\ TruthyStr(assistant_message.content)) =>
        /\ "message" \in DOMAIN returned
        /\ returned["message"] = assistant_message.content


-----------------------------------------------------------------------------
(* The negative-sentiment workflow of the integration tests: run without a  *)
(* direction, in dry-run, on the readings of the test and on their          *)
(* neighbours, checked under SpecWorkflow                                   *)

\* average_sentiment -0.7 and -0.6, in tenths
WorkflowSentiments == {-7, -6}

\* rsi_14 30.0, 30.1 and 50.0, in tenths
WorkflowRsi == {300, 301, 500}

InitWorkflow ==
    /\ OrchIdle
    /\ hpc = "called"
    /\ ret = NoOutcome
    /\ \E self \in ToolStates, s \in WorkflowSentiments, r \in WorkflowRsi :
          call = [op |-> "run", symbol |-> "ETH", direction |-> "None",
                  amount |-> 10000,
                  market_data |-> MarketDict("ETH", <<300000>>, <<-35>>,
                                             <<[rsi_14 |-> r]>>),
                  sentiment_data |-> [average_sentiment |-> s,
                                      sentiment_label |-> "Negative"],
                  dry_run |-> TRUE, self |-> self]

SpecWorkflow == InitWorkflow /\ [][CallRun]_vars

\* C30: run without an explicit direction, in dry-run and with every order
\* placement succeeding, on average_sentiment -0.6, RSI 30.0 and a 24h
\* change of -3.5%, returns direction SHORT and status executed.
C30_NegativeSentimentWorkflow ==
    (/\ RunReturned
     /\ call.sentiment_data["average_sentiment"] = -6
     /\ call.market_data["indicators"]["rsi_14"] = 300
     /\ call.market_data["24h_change_percent"] = -35
     /\ ret.kind = "return"
     /\ \A i \in 1..Len(PlacementReturns) : PlacementReturns[i].arg = "ok") =>
        /\ ret.val["direction"] = "SHORT"
        /\ Status("executed")


-----------------------------------------------------------------------------
(* Claims about amounts, prices and sizes, checked under SpecExec *)

\* C31: execute_trade called in live mode (dry_run = false) with a LONG or
\* SHORT decision and an amount of zero returns status failed with an error
\* field, and no order is placed on the exchange.
C31_InvalidAmount ==
    (/\ TradeReturned
     /\ ~call.dry_run
     /\ call.amount = 0
     /\ TradeDirection \in {"LONG", "SHORT"})
    => /\ Status("failed")
       /\ "error" \in DOMAIN ret.val
       /\ OrderCalls = <<>>

\* the call that follows the sleep at position i of the log queries the live
\* service: it calls info.all_mids(), after creating the Info client when
\* there is none
QueriesAgain(log, i) ==
    /\ i < Len(log)
    /\ \/ log[i + 1].ev = "all_mids"
       \/ /\ log[i + 1].ev = "Info"
          /\ i + 1 < Len(log)
          /\ log[i + 2].ev \in {"all_mids", "sleep"}

\* C32: when the live price lookup fails (exception or symbol missing from
\* the quotes), the live service is queried again on each retry, and the
\* constant fallback price is returned only after every attempt of the
\* bounded retry has queried the live service and failed.
C32_LivePriceRetry ==
    CallReturned =>
        \A i \in 1..Len(ret.log) :
            ret.log[i].ev = "sleep" => QueriesAgain(ret.log, i)

-----------------------------------------------------------------------------
(* Claims about the execution step of process_prompt, checked under Spec *)

\* C33: every invocation of TradingExecutionTool.run made during
\* process_prompt carries exactly the symbol, amount and dry_run that were
\* passed to process_prompt, whatever arguments the model put in its tool
\* calls and whatever the tools returned.
C33_CallerParameters ==
    \A i \in 1..Len(trade_runs) :
        /\ trade_runs[i].args["symbol"] = prompt_args.symbol
        /\ trade_runs[i].args["amount"] = prompt_args.amount
        /\ trade_runs[i].args["dry_run"] = prompt_args.dry_run

\* the model asked for the market data of another symbol, the tool answered
\* for that symbol, and the execution was still invoked for the caller's
C33_Witness ==
    /\ Returned
    /\ Len(trade_runs) = 1
    /\ "market_data" \in DOMAIN trade_runs[1].args
    /\ trade_runs[1].args["market_data"]["symbol"] = "BTC"
    /\ trade_runs[1].args["symbol"] = "ETH"
    /\ prompt_args.symbol = "ETH"
    /\ trade_runs[1].args["amount"] = 500

\* the results the sentiment and market-data tools recorded are the same
\* before and after a step
ToolResultsKept ==
    \A k \in DOMAIN context["tool_results"] :
        /\ k \in DOMAIN context'["tool_results"]
        /\ context'["tool_results"][k] = context["tool_results"][k]

\* C34: in any run of process_prompt, TradingExecutionTool.run is invoked at
\* most once, and only after the turn loop has ended, i.e. after every
\* sentiment and market-data tool call of the run has completed; no model
\* request is made after the execution.
C34_ExecutionOnceAndLast ==
    [][/\ Len(trade_runs') <= 1
       /\ trade_runs' # trade_runs =>
             /\ pc = "after_loop" /\ pc' = "finish"
             /\ ToolResultsKept
       /\ trade_runs # <<>> =>
             /\ requests' = requests
             /\ trade_runs' = trade_runs
             /\ context'["tool_results"] = context["tool_results"]
             /\ pc' \in {"finish", "done"}]_vars

\* two turns of tool calls recorded sentiment and market data, the model
\* stopped, the recommendation was requested last and the execution ran once
C34_Witness ==
    /\ Returned
    /\ Len(trade_runs) = 1
    /\ Len(TurnRequests) >= 3
    /\ requests[Len(requests)].kind = "recommendation"
    /\ {"MarketDataTool_run", "TwitterSentimentTool_run", "TradingExecutionTool_run"}
          \subseteq DOMAIN context["tool_results"]

-----------------------------------------------------------------------------
(* The execution tool and the dispatcher, checked under SpecDispatch *)

\* the call names TradingExecutionTool
NamesTradingTool(d) ==
    /\ SplitName(d.tool_call.name) # <<>>
    /\ SplitName(d.tool_call.name)[1] = "TradingExecutionTool"

\* the call ran no tool method, recorded nothing and left no execution
\* result in tool_results, and the engine holds no TradingExecutionTool
NoTradeThroughDispatcher(d) ==
    /\ NothingDone(d)
    /\ "TradingExecutionTool_run" \notin DOMAIN d.after["tool_results"]
    /\ "TradingExecutionTool" \notin engine.tools

\* C35: a tool call naming TradingExecutionTool (for example
\* TradingExecutionTool_run) returns the error 'Tool not found', executes no
\* trade and records nothing in tool_results; the dispatcher never puts a
\* key starting with TradingExecutionTool in tool_results.
C35_DispatcherCannotTrade ==
    \A k \in 1..Len(Dispatched) :
        NamesTradingTool(Dispatched[k]) =>
            /\ Dispatched[k].result = ErrorResult("Tool not found")
            /\ NoTradeThroughDispatcher(Dispatched[k])

-----------------------------------------------------------------------------
(* More claims about what process_prompt returns, checked under Spec *)

\* C36: whenever process_prompt returns a Context for a run in which at
\* least one tool call was requested but tool_results has no
\* TradingExecutionTool_run entry, the Context carries an error or
\* trade_error field that explains why no execution took place.
C36_NoSilentNonExecution ==
    (/\ Returned
     /\ made_tool_calls
     /\ "TradingExecutionTool_run" \notin DOMAIN returned["tool_results"])
    => \/ "error" \in DOMAIN returned
       \/ "trade_error" \in DOMAIN returned

-----------------------------------------------------------------------------
(* More claims about amounts and sizes, checked under SpecExec *)

\* C37: in live mode the notional of the order submitted to the exchange
\* (submitted size x the price used for the floor check) never exceeds the
\* caller-supplied amount by more than one rounding unit of size
\* (0.0001 x price), for every amount and price accepted by run or
\* execute_trade.
C37_SpendingCap ==
    (CallReturned /\ ~call.dry_run /\ OrderCalls # <<>>) =>
        OrderCalls[1].arg.sz * OrderCalls[1].arg.px
            <= call.amount * 10000 + OrderCalls[1].arg.px

\* C38: every execution result with status executed reports a strictly
\* positive size, for every positive amount and price (including small
\* amounts such as the CLI default 0.01 in dry-run mode); an order of size 0
\* is never reported as executed.
C38_NoEmptyFills ==
    (CallReturned /\ call.amount > 0 /\ Status("executed")) =>
        ret.val["size"] > 0

-----------------------------------------------------------------------------
(* The price lookup on its own: one call of _get_market_price(symbol), on a *)
(* tool with or without an Info client, checked under SpecPrice             *)

\* what info.all_mids() may answer during a lookup: quotes, quotes without
\* any coin, or an exception
PriceMids == {QuotesA, QuotesZero, EmptyD, RaiseD}

\* the worlds a lookup may meet: up to MaxCtorFail failed constructions of
\* the Info client when there is none
PriceWorlds(self) ==
    {World(self, f, <<m1, m2>>, "filled") :
        f \in (IF self.info THEN {0} ELSE 0..MaxCtorFail),
        m1 \in PriceMids, m2 \in {QuotesB, RaiseD}}

InitPrice ==
    /\ OrchIdle
    /\ hpc = "called"
    /\ ret = NoOutcome
    /\ \E symbol \in Symbols, self \in ToolStates :
          call = [op |-> "_get_market_price", symbol |-> symbol, self |-> self]

\* tool._get_market_price(symbol)
CallGetMarketPrice ==
    /\ hpc = "called"
    /\ call.op = "_get_market_price"
    /\ \E w \in PriceWorlds(call.self) :
          ret' = Outcome(GetMarketPrice(call.symbol, 0, w))
    /\ hpc' = "returned"
    /\ UNCHANGED <<call, pc, prompt_args, turn_count, made_tool_calls,
                   assistant_message, context, requests, trade_runs, returned, engine>>

SpecPrice == InitPrice /\ [][CallGetMarketPrice]_vars

PriceReturned == hpc = "returned" /\ call.op = "_get_market_price"

\* the time.sleep calls of the lookup
Sleeps == Events(ret.log, "sleep")

\* the live quote for the symbol, when the first attempt obtained one
LiveQuote ==
    IF /\ LiveQueries # <<>>
       /\ ~Raises(LiveQueries[1].arg)
       /\ StripPerp(call.symbol) \in DOMAIN LiveQueries[1].arg
    THEN <<LiveQueries[1].arg[StripPerp(call.symbol)]>>
    ELSE <<>>

\* C39: for every behaviour of the live price service (success, missing
\* symbol, exception on every call, failure to create the client),
\* _get_market_price terminates after at most 3 attempts (retry_count 0, 1,
\* 2) with a fixed 1-second sleep between attempts and returns a price: the
\* live quote if obtained, otherwise a constant from the fallback table or
\* the default 2000.
C39_PriceLookupTerminates ==
    PriceReturned =>
        /\ ret.kind = "return"
        /\ Len(Sleeps) <= 2
        /\ \A i \in 1..Len(Sleeps) : Sleeps[i].arg = 1
        /\ \A i \in 1..Len(ret.log) :
              ret.log[i].ev = "sleep" =>
                 /\ i > 1 /\ ret.log[i - 1].ev \in {"Info", "all_mids"}
                 /\ i < Len(ret.log) => ret.log[i + 1].ev # "sleep"
        /\ \A i \in 1..Len(ret.log) :
              ret.log[i].ev = "Info" => ret.log[i].arg \in {0, 1, 2}
        /\ IF LiveQuote # <<>>
           THEN ret.val = LiveQuote[1] /\ Sleeps = <<>>
           ELSE ret.val \in {6000000, 300000, 10000, 3500, 200000}

\* the Info client cannot be created on any of the three attempts: two
\* sleeps, and the default 2000 for a symbol of the table
C39_Witness ==
    /\ PriceReturned
    /\ call.symbol = "BTC"
    /\ Len(Events(ret.log, "Info")) = 3
    /\ Len(Sleeps) = 2
    /\ ret.val = 200000

-----------------------------------------------------------------------------
(* The instance cache: a sequence of _get_tool_instance calls on one        *)
(* engine, checked under SpecCache.  Here engine.tools is the dictionary    *)
(* self.tools itself, from tool name to instance; instances are numbered in *)
(* the order of their creation.                                             *)

\* the names asked for: the two capabilities, the execution tool (not a
\* capability of the dispatcher) and a name nobody defined
ToolNames == AVAILABLE_TOOLS \cup {"TradingExecutionTool", "UnknownTool"}

\* how many calls a behaviour makes
MaxCacheCalls == 4

\* a fresh instance on every call for a known name
GetToolInstanceNoCache(tools, tool_name, made) ==
    IF tool_name \notin AVAILABLE_TOOLS
    THEN [tools |-> tools, instance |-> <<>>, created |-> <<>>]
    ELSE [tools |-> Put(tools, tool_name, made + 1),
          instance |-> <<made + 1>>, created |-> <<tool_name>>]

\* _get_tool_instance(tool_name), `made` instances having been created so
\* far: the cache afterwards, the instance returned (<<>> for None) and the
\* class instantiated, if any
GetToolInstance(tools, tool_name, made) ==
    IF tool_name \notin DOMAIN tools
    THEN IF tool_name \notin AVAILABLE_TOOLS
         THEN [tools |-> tools, instance |-> <<>>, created |-> <<>>]
         ELSE [tools |-> Put(tools, tool_name, made + 1),
               instance |-> <<made + 1>>, created |-> <<tool_name>>]
    ELSE [tools |-> tools, instance |-> <<tools[tool_name]>>, created |-> <<>>]

\* an engine as __init__ leaves it (lines 71-75)
InitCache ==
    /\ pc = "idle"
    /\ prompt_args = EmptyD
    /\ turn_count = 0
    /\ made_tool_calls = FALSE
    /\ assistant_message = NoneD
    /\ context = EmptyD
    /\ requests = <<>>
    /\ trade_runs = <<>>
    /\ returned = NoneD
    /\ engine = [tools |-> EmptyD, tool_specs |-> <<>>]
    /\ hpc = "called"
    /\ call = [op |-> "_get_tool_instance", n |-> 0]
    /\ ret = [kind |-> "cache", created |-> <<>>, answers |-> <<>>]

\* engine._get_tool_instance(tool_name)
CallGetToolInstance ==
    /\ hpc = "called"
    /\ call.op = "_get_tool_instance"
    /\ call.n < MaxCacheCalls
    /\ \E tool_name \in ToolNames :
       \E g \in {GetToolInstance(engine.tools, tool_name, Len(ret.created))} :
          /\ engine' = [engine EXCEPT !.tools = g.tools]
          /\ ret' = [ret EXCEPT
                        !.created = @ \o g.created,
                        !.answers = Append(@, [name |-> tool_name,
                                               instance |-> g.instance,
                                               before |-> engine.tools,
                                               after |-> g.tools])]
    /\ call' = [call EXCEPT !.n = @ + 1]
    /\ UNCHANGED <<hpc, pc, prompt_args, turn_count, made_tool_calls,
                   assistant_message, context, requests, trade_runs, returned>>

SpecCache == InitCache /\ [][CallGetToolInstance]_vars

\* C40: for any sequence of _get_tool_instance calls on one engine, each
\* known capability class is instantiated at most once and every later call
\* for the same name returns that same instance; an unknown name returns
\* None and adds nothing to the cache.
C40_InstanceCache ==
    /\ \A c \in AVAILABLE_TOOLS :
          Cardinality({i \in 1..Len(ret.created) : ret.created[i] = c}) <= 1
    /\ \A j \in 1..Len(ret.answers) :
          IF ret.answers[j].name \in AVAILABLE_TOOLS
          THEN /\ ret.answers[j].instance # <<>>
               /\ ret.answers[j].name \in DOMAIN ret.answers[j].after
               /\ ret.answers[j].after[ret.answers[j].name]
                     = ret.answers[j].instance[1]
               /\ \A i \in 1..(j - 1) :
                     ret.answers[i].name = ret.answers[j].name =>
                        ret.answers[j].instance = ret.answers[i].instance
          ELSE /\ ret.answers[j].instance = <<>>
               /\ ret.answers[j].after = ret.answers[j].before

\* a capability asked for, an unknown name, the same capability again and
\* the other capability: two instances created, the first one returned twice
C40_Witness ==
    /\ Len(ret.answers) = 4
    /\ ret.answers[1].name = "TwitterSentimentTool"
    /\ ret.answers[2].name = "UnknownTool"
    /\ ret.answers[3].name = "TwitterSentimentTool"
    /\ ret.answers[4].name = "MarketDataTool"
    /\ ret.answers[3].instance = ret.answers[1].instance
    /\ ret.answers[4].instance # ret.answers[1].instance
    /\ ret.created = <<"TwitterSentimentTool", "MarketDataTool">>

====
